---- MODULE Spec2Model ----
(***************************************************************************)
(* Model of the alaska.vn scrapers.                                        *)
(*                                                                         *)
(*   AlaskaScraper        (src/alaska_scraper.py)        product crawl     *)
(*   AlaskaHeaderScraper  (src/alaska_header_scraper.py) navigation crawl  *)
(*                                                                         *)
(* Strings are sequences of tokens.  Every string the code compares,       *)
(* searches or joins is built from the tokens below, and every pattern     *)
(* the code tests (startswith, `in`) begins and ends on a token boundary,  *)
(* so the token-level operators agree with Python's character-level ones.  *)
(* Vietnamese labels are written in ASCII.                                 *)
(***************************************************************************)
EXTENDS Integers, Sequences, FiniteSets, Bags, TLC

VARIABLES
    program,          \* which entry point runs
    firecrawl,        \* self.firecrawl is not None (an API key was configured)
    pc,               \* position of the running entry point
    \* ---- AlaskaScraper.get_all_product_urls / scrape_all_products
    page,             \* local `page`
    all_urls,         \* local `all_urls` (only extended and passed to set(): a bag)
    product_urls,     \* return value of get_all_product_urls
    idx,              \* position of the for loop over product_urls (1-based)
    all_products,     \* local `all_products`
    requested,        \* history: listing page numbers requested so far
    calls,            \* history: extraction calls made by scrape_all_products
    listing_calls,    \* history: extraction calls of the latest listing iteration
    last_request,     \* history: the latest page fetched, the seconds slept since
    last_gap,         \* history: the latest two fetches of different pages in a row
    lastFetch,        \* history: the attempts of the latest get_page_content
    \* ---- AlaskaHeaderScraper
    home,             \* the home page document (its <a> elements)
    main_navigation,  \* basic_navigation.main_navigation
    navigation_pages, \* local `navigation_pages`
    sub_pages,        \* local `sub_pages` of the main item being processed
    total_pages,      \* local `total_pages`
    mi,               \* position of the loop over main_navigation (1-based)
    si,               \* position of the loop over nav_item.sub_items (1-based)
    main_content,     \* local `main_content`
    events,           \* history: fetches and appends of scrape_all_navigation_content
    \* ---- extract_main_menu applied to a document
    soup_links,       \* the <a> elements of the document, in document order
    navigation_items, \* return value of extract_main_menu
    \* ---- extract_prices applied to a text
    price_matches,    \* the (region, price) pairs re.findall yields, in loop order
    prices,           \* return value of extract_prices
    \* ---- the other extractors applied to a parsed page
    soup,             \* the parts of the page the extractor reads
    returned          \* return value of the extractor

vars == <<program, firecrawl, pc, page, all_urls, product_urls, idx,
          all_products, requested, calls, listing_calls, last_request, last_gap,
          lastFetch,
          home, main_navigation,
          navigation_pages, sub_pages, total_pages, mi, si, main_content,
          events, soup_links, navigation_items, price_matches, prices,
          soup, returned>>

crawlVars == <<page, all_urls, product_urls, idx, all_products, requested, calls,
               listing_calls, last_request, last_gap>>
navVars == <<home, main_navigation, navigation_pages, sub_pages, total_pages,
             mi, si, main_content, events>>
menuVars == <<soup_links, navigation_items>>
priceVars == <<price_matches, prices>>
pageVars == <<soup, returned>>

----------------------------------------------------------------------------
(* Strings *)

\* str.startswith
StartsWith(s, p) == Len(s) >= Len(p) /\ SubSeq(s, 1, Len(p)) = p

\* the `in` operator on strings
Contains(s, p) ==
    \E i \in 0..(Len(s) - Len(p)) : SubSeq(s, i + 1, i + Len(p)) = p

Range(s) == {s[i] : i \in DOMAIN s}

\* self.base_url
base_url == <<"http", "s", ":", "/", "/", "alaska.vn">>

\* self.home_url
home_url == base_url \o <<"/">>

\* self.products_url
products_url == base_url \o <<"/", "product", "/">>

\* urllib.parse.urljoin(base_url, ref); base_url has an empty path
HasScheme(u) ==
    \/ StartsWith(u, <<"http", ":">>)
    \/ StartsWith(u, <<"http", "s", ":">>)
    \/ StartsWith(u, <<"javascript:">>)
    \/ StartsWith(u, <<"mailto:">>)
    \/ StartsWith(u, <<"tel:">>)

\* an empty fragment is dropped when the parts are put together again
Defrag(u) == IF u # <<>> /\ u[Len(u)] = "#" THEN SubSeq(u, 1, Len(u) - 1) ELSE u

\* what urlsplit does to a reference before it is parsed: leading blanks are
\* stripped, tabs and line breaks are removed wherever they are
RECURSIVE UrlClean(_)
UrlClean(ref) ==
    IF ref # <<>> /\ ref[1] = " " THEN UrlClean(Tail(ref))
    ELSE SelectSeq(ref, LAMBDA c : c \notin {"\t", "\r", "\n"})

urljoin(base, ref) ==
    LET url == UrlClean(ref)
    IN  IF ref = <<>> \/ url = <<>> THEN base
        ELSE IF StartsWith(url, <<"http", "s", ":", "/", "/">>) THEN Defrag(url)
        ELSE IF HasScheme(url) THEN ref
        ELSE IF StartsWith(url, <<"/", "/">>) THEN Defrag(SubSeq(base, 1, 3) \o url)
        ELSE IF StartsWith(url, <<"/">>) THEN Defrag(base \o url)
        ELSE IF url[1] = "#" THEN Defrag(base \o url)
        ELSE Defrag(base \o <<"/">> \o url)

\* an absolute http(s) URL: scheme, "//" and a host
IsAbsolute(u) ==
    \/ StartsWith(u, <<"http", ":", "/", "/">>) /\ Len(u) > 4
    \/ StartsWith(u, <<"http", "s", ":", "/", "/">>) /\ Len(u) > 5

----------------------------------------------------------------------------
(* Page fetching *)

\* What one fetcher gives: an exception or error status, an empty body, a page.
FetchResults == {"error", "empty", "html"}

\* Optional[str] seen by the callers: None, '' or markup
NoContent(content) == content \in {"None", "empty"}

AsContent(r) == IF r = "error" THEN "None" ELSE r

\* AlaskaScraper.get_page_content: Firecrawl when configured, else requests
get_page_content(fc, direct, viaFirecrawl) ==
    IF fc
    THEN [scraper |-> "product", attempts |-> <<"firecrawl">>,
          direct |-> "unused", viaFirecrawl |-> viaFirecrawl,
          content |-> AsContent(viaFirecrawl)]
    ELSE [scraper |-> "product", attempts |-> <<"direct">>,
          direct |-> direct, viaFirecrawl |-> "unused",
          content |-> AsContent(direct)]

header_get_page_content_firecrawl_first(fc, direct, viaFirecrawl) ==
    IF fc
    THEN [scraper |-> "header", attempts |-> <<"firecrawl">>,
          direct |-> direct, viaFirecrawl |-> viaFirecrawl,
          content |-> AsContent(viaFirecrawl)]
    ELSE [scraper |-> "header", attempts |-> <<"direct">>,
          direct |-> direct, viaFirecrawl |-> "unused",
          content |-> AsContent(direct)]

\* AlaskaHeaderScraper.get_page_content: requests, then Firecrawl on exception
header_get_page_content(fc, direct, viaFirecrawl) ==
    IF direct # "error"
    THEN [scraper |-> "header", attempts |-> <<"direct">>,
          direct |-> direct, viaFirecrawl |-> "unused",
          content |-> direct]
    ELSE IF fc
    THEN [scraper |-> "header", attempts |-> <<"direct", "firecrawl">>,
          direct |-> direct, viaFirecrawl |-> viaFirecrawl,
          content |-> AsContent(viaFirecrawl)]
    ELSE [scraper |-> "header", attempts |-> <<"direct">>,
          direct |-> direct, viaFirecrawl |-> "unused",
          content |-> "None"]

NoFetch == [scraper |-> "none", attempts |-> <<>>, direct |-> "unused",
            viaFirecrawl |-> "unused", content |-> "None"]

----------------------------------------------------------------------------
(* AlaskaScraper: listing pages *)

\* the safety limit of get_all_product_urls
MaxPage == 30

\* page_url of listing page p
PageUrl(p) ==
    IF p = 1 THEN products_url
    ELSE products_url \o <<"page", "/", ToString(p), "/">>

\* the substrings that mark a non-product href
SkipHref == {<<"/", "page", "/">>, <<"/", "category", "/">>, <<"/", "tag", "/">>,
             <<"javascript:">>, <<"mailto:">>, <<"tel:">>, <<"#">>}

SkipUrlNothing == {}

\* the substrings that mark a non-product URL once it is resolved
SkipUrl == {<<"/", "page", "/">>, <<"/", "category", "/">>, <<"/", "tag", "/">>}

\* the loop over the <a href> elements of the product items
RECURSIVE ListingLoop(_, _, _)
ListingLoop(hrefs, page_url, acc) ==
    IF hrefs = <<>> THEN acc
    ELSE
      LET href == Head(hrefs)
          full_url == IF StartsWith(href, <<"/">>) THEN urljoin(base_url, href)
                      ELSE href
          skipped == href = <<>> \/ \E skip \in SkipHref : Contains(href, skip)
          isProduct == /\ StartsWith(full_url, base_url)
                       /\ full_url # base_url \o <<"/">>
                       /\ full_url # page_url
                       /\ ~ \E skip \in SkipUrl : Contains(full_url, skip)
      IN  IF ~skipped /\ isProduct /\ full_url \notin Range(acc)
          THEN ListingLoop(Tail(hrefs), page_url, Append(acc, full_url))
          ELSE ListingLoop(Tail(hrefs), page_url, acc)

ListingOfFailedFetch(page_url, content, doc) ==
    IF NoContent(content) THEN <<page_url \o <<"retry", "/">>>>
    ELSE IF ~doc.container THEN <<>>
    ELSE ListingLoop(doc.hrefs, page_url, <<>>)

\* extract_product_urls_from_listing, given what get_page_content returned
\* and the parsed document
extract_product_urls_from_listing(page_url, content, doc) ==
    IF NoContent(content) THEN <<>>
    ELSE IF ~doc.container THEN <<>>
    ELSE ListingLoop(doc.hrefs, page_url, <<>>)

SeqsUpTo(S, n) == UNION {[1..k -> S] : k \in 0..n}

\* hrefs of the listing documents of the crawl
HrefRelative == <<"/", "tu-mat", "/">>
HrefAbsolute == base_url \o <<"/", "tu-dong", "/">>
HrefCategory == <<"/", "category", "/", "tu-mat", "/">>

\* a document without the products container
NoDoc == [container |-> FALSE, hrefs |-> <<>>]

ListingDocs ==
    {NoDoc} \cup
    {[container |-> TRUE, hrefs |-> h] :
        h \in {<<>>,
               <<HrefRelative>>,
               <<HrefAbsolute>>,
               <<HrefCategory, HrefRelative, HrefAbsolute, HrefRelative>>,
               <<<<"/">>, HrefAbsolute, HrefRelative>>}}

\* what extract_product_urls_with_firecrawl may return: [] on any failure,
\* else whatever list the service extracted
FirecrawlUrlLists ==
    {<<>>,
     <<base_url \o <<"/", "tu-mat", "/">>>>,
     <<base_url \o <<"/", "tu-mat", "/">>, base_url \o <<"/", "tu-mat", "/">>>>,
     <<base_url \o <<"/", "tu-dong", "/">>, base_url \o <<"/", "tu-mat", "/">>>>}

\* the bag of the elements of a list
BagOfSeq(s) == [u \in Range(s) |-> Cardinality({i \in DOMAIN s : s[i] = u})]

\* all_urls.extend(urls)
Extend(bag, urls) == bag (+) BagOfSeq(urls)

\* the orders in which a set may be listed
Perms(S) == {f \in [1..Cardinality(S) -> S] : \A x \in S : \E i \in DOMAIN f : f[i] = x}

\* some listing of a bag, every copy included
RECURSIVE BagAsList(_)
BagAsList(bag) ==
    IF BagToSet(bag) = {} THEN <<>>
    ELSE LET u == CHOOSE x \in BagToSet(bag) : TRUE
         IN  <<u>> \o BagAsList(bag (-) SetToBag({u}))

ReturnedWithoutSet(bag) == {BagAsList(bag)}

\* list(set(all_urls)): the order is whatever the set yields
ReturnedLists(bag) == Perms(BagToSet(bag))

NoUrlsIsNone(urls) == FALSE

\* `if not urls:`, which ends the loop
NoUrls(urls) == urls = <<>>

SafetyLimitOffByOne(p) == p > MaxPage + 1

\* `if page > 30:`, which ends the loop after the increment
SafetyLimit(p) == p > MaxPage

NextPageSkipsOne(p) == p + 2

\* page += 1
NextPage(p) == p + 1

SleepSkipped(slept, seconds) == slept

\* time.sleep(seconds), added to the seconds slept since the latest fetch
Sleep(slept, seconds) == slept + seconds

\* no page fetched yet
NoRequest == [kind |-> "none", id |-> 0, slept |-> 0]
NoGap == [from |-> "none", to |-> "none", pause |-> 0]

\* a page is fetched: two fetches in a row of different pages make a gap, with
\* the seconds slept between them
GapBefore(kind, id) ==
    IF last_request.kind = "none" \/ (last_request.kind = kind /\ last_request.id = id)
    THEN last_gap
    ELSE [from |-> last_request.kind, to |-> kind, pause |-> last_request.slept]

FallbackAlways(result) == TRUE

\* `if not urls:` and `if not product_data:` after the Firecrawl extraction,
\* which start the manual extraction
FirecrawlGaveNothing(result) == result = <<>>

\* one iteration of the while loop of get_all_product_urls
ListingIteration(fcUrls, direct, viaFirecrawl, doc) ==
    LET page_url == PageUrl(page)
        useManual == ~firecrawl \/ FirecrawlGaveNothing(fcUrls)
        fetch == get_page_content(firecrawl, direct, viaFirecrawl)
        manual == extract_product_urls_from_listing(page_url, fetch.content, doc)
        urls == IF useManual THEN manual ELSE fcUrls
    IN  /\ requested' = requested \cup {page}
        /\ listing_calls' =
              (IF firecrawl
               THEN <<[fn |-> "firecrawl", page |-> page, ok |-> fcUrls # <<>>]>>
               ELSE <<>>)
              \o (IF useManual
                  THEN <<[fn |-> "manual", page |-> page, ok |-> manual # <<>>]>>
                  ELSE <<>>)
        /\ lastFetch' = IF useManual THEN fetch ELSE NoFetch
        /\ last_gap' = GapBefore("listing", page)
        /\ IF NoUrls(urls)
           THEN /\ pc' = "return_urls"
                /\ last_request' = [kind |-> "listing", id |-> page, slept |-> 0]
                /\ UNCHANGED <<page, all_urls>>
           ELSE /\ all_urls' = Extend(all_urls, urls)
                /\ page' = NextPage(page)
                /\ last_request' = [kind |-> "listing", id |-> page,
                                    slept |-> Sleep(0, 1)]
                /\ pc' = IF SafetyLimit(NextPage(page)) THEN "return_urls"
                         ELSE "listing"

\* the documents a fetch with result r may be parsed into
DocsFor(r) == IF r = "html" THEN ListingDocs ELSE {NoDoc}

ListingPage ==
    /\ program = "products"
    /\ pc = "listing"
    /\ IF firecrawl
       THEN \E fcUrls \in FirecrawlUrlLists :
              IF fcUrls # <<>>
              THEN ListingIteration(fcUrls, "unused", "unused", NoDoc)
              ELSE \E r \in FetchResults : \E doc \in DocsFor(r) :
                     ListingIteration(fcUrls, "unused", r, doc)
       ELSE \E r \in FetchResults : \E doc \in DocsFor(r) :
              ListingIteration(<<>>, r, "unused", doc)
    /\ UNCHANGED <<program, firecrawl, product_urls, idx, all_products, calls>>
    /\ UNCHANGED <<navVars, menuVars, priceVars, pageVars>>

\* return list(set(all_urls))
ReturnUrls ==
    /\ program = "products"
    /\ pc = "return_urls"
    /\ product_urls' \in ReturnedLists(all_urls)
    /\ pc' = "returned"
    /\ UNCHANGED <<program, firecrawl, page, all_urls, idx, all_products,
                   requested, calls, listing_calls, last_request, last_gap,
                   lastFetch>>
    /\ UNCHANGED <<navVars, menuVars, priceVars, pageVars>>

\* product_urls = self.get_all_product_urls() in scrape_all_products: the
\* locals of the finished call are gone, the loop over product_urls starts
ReceiveUrls ==
    /\ program = "products"
    /\ pc = "returned"
    /\ page' = 1
    /\ all_urls' = EmptyBag
    /\ all_products' = <<>>
    /\ idx' = 1
    /\ pc' = "products"
    /\ UNCHANGED <<program, firecrawl, product_urls, requested, calls,
                   listing_calls, last_request, last_gap, lastFetch>>
    /\ UNCHANGED <<navVars, menuVars, priceVars, pageVars>>

----------------------------------------------------------------------------
(* AlaskaScraper: product pages *)

\* Optional values are lists of at most one element
None == <<>>
Some(x) == <<x>>

\* extract_product_details_with_firecrawl: a record, or None on any failure
extract_product_details_with_firecrawl(url, extracted) ==
    IF extracted THEN Some([url |-> url, via |-> "firecrawl"]) ELSE None

\* extract_product_details: None without content, else a record
extract_product_details(url, content) ==
    IF NoContent(content) THEN None ELSE Some([url |-> url, via |-> "manual"])

CollectWithPlaceholder(products, url, product_data) ==
    IF product_data # None THEN Append(products, product_data[1])
    ELSE Append(products, [url |-> url, via |-> "failed"])

\* `if product_data: all_products.append(product_data)`
Collect(products, url, product_data) ==
    IF product_data # None THEN Append(products, product_data[1]) ELSE products

\* the body of the for loop of scrape_all_products
ProductIteration(url, extracted, direct, viaFirecrawl) ==
    LET viaFc == extract_product_details_with_firecrawl(url, extracted)
        useManual == ~firecrawl \/ FirecrawlGaveNothing(viaFc)
        fetch == get_page_content(firecrawl, direct, viaFirecrawl)
        manual == extract_product_details(url, fetch.content)
        product_data == IF useManual THEN manual ELSE viaFc
    IN  /\ calls' = calls
                    \o (IF firecrawl
                        THEN <<[fn |-> "firecrawl", url |-> url, ok |-> viaFc # None]>>
                        ELSE <<>>)
                    \o (IF useManual
                        THEN <<[fn |-> "manual", url |-> url, ok |-> manual # None]>>
                        ELSE <<>>)
        /\ lastFetch' = IF useManual THEN fetch ELSE NoFetch
        /\ all_products' = Collect(all_products, url, product_data)
        /\ last_gap' = GapBefore("product", url)
        /\ last_request' = [kind |-> "product", id |-> url, slept |-> Sleep(0, 2)]
        /\ idx' = idx + 1

ProductPage ==
    /\ program = "products"
    /\ pc = "products"
    /\ idx <= Len(product_urls)
    /\ IF firecrawl
       THEN \E extracted \in BOOLEAN :
              IF extracted
              THEN ProductIteration(product_urls[idx], TRUE, "unused", "unused")
              ELSE \E r \in FetchResults :
                     ProductIteration(product_urls[idx], FALSE, "unused", r)
       ELSE \E r \in FetchResults :
              ProductIteration(product_urls[idx], FALSE, r, "unused")
    /\ UNCHANGED <<program, firecrawl, pc, page, all_urls, product_urls, requested,
                   listing_calls>>
    /\ UNCHANGED <<navVars, menuVars, priceVars, pageVars>>

\* return all_products
ReturnProducts ==
    /\ program = "products"
    /\ pc = "products"
    /\ idx > Len(product_urls)
    /\ pc' = "done"
    /\ UNCHANGED <<program, firecrawl, crawlVars, lastFetch>>
    /\ UNCHANGED <<navVars, menuVars, priceVars, pageVars>>

\* defaults of the variables an entry point does not use
CrawlIdle ==
    /\ page = 1 /\ all_urls = EmptyBag /\ product_urls = <<>> /\ idx = 1
    /\ all_products = <<>> /\ requested = {} /\ calls = <<>>
    /\ listing_calls = <<>>
    /\ last_request = NoRequest /\ last_gap = NoGap
NavIdle ==
    /\ home = <<>> /\ main_navigation = <<>> /\ navigation_pages = <<>>
    /\ sub_pages = <<>> /\ total_pages = 0 /\ mi = 1 /\ si = 1
    /\ main_content = None /\ events = <<>>
MenuIdle == soup_links = <<>> /\ navigation_items = <<>>
PriceIdle == price_matches = <<>> /\ prices = <<>>
PageIdle == soup = <<>> /\ returned = <<>>

\* scrape_all_products starts
InitCrawl ==
    /\ program = "products"
    /\ firecrawl \in BOOLEAN
    /\ pc = "listing"
    /\ lastFetch = NoFetch
    /\ CrawlIdle /\ NavIdle /\ MenuIdle /\ PriceIdle /\ PageIdle

NextCrawl == ListingPage \/ ReturnUrls \/ ReceiveUrls \/ ProductPage \/ ReturnProducts

SpecCrawl == InitCrawl /\ [][NextCrawl]_vars

\* the crawl keeps running until it returns
FairCrawl == SpecCrawl /\ WF_vars(NextCrawl)


----------------------------------------------------------------------------
(* AlaskaHeaderScraper: the navigation menu *)

\* the target labels, in the order of target_items and of the final loop:
\* Gioi thieu, Ho tro khach hang, Du an, Tin tuc, Lien he.  The literals of
\* the source file are not the Vietnamese words: they are the UTF-8 bytes of
\* the words read as Windows-1252 (two or three characters for every
\* accented letter).  "Gioi thieu" and the others stand for these literals;
\* the Vietnamese spelling of the first label is written "Gio+'i thie^.u".
TargetNames == << <<"Gioi thieu">>, <<"Ho tro khach hang">>, <<"Du an">>,
                  <<"Tin tuc">>, <<"Lien he">> >>

\* url_mappings of the fallback
url_mappings ==
    [i \in 1..5 |->
       CASE i = 1 -> {<<"/", "ve-chung-toi", "/">>, <<"/", "gioi-thieu", "/">>}
         [] i = 2 -> {<<"#">>, <<"/", "ho-tro", "/">>}
         [] i = 3 -> {<<"/", "project", "/">>, <<"/", "du-an", "/">>}
         [] i = 4 -> {<<"/", "tin-tuc", "/">>, <<"/", "news", "/">>}
         [] i = 5 -> {<<"/", "lien-he-alaska", "/">>, <<"/", "lien-he", "/">>,
                      <<"/", "contact", "/">>}]

\* expected_sub_items, by position of the main label; the other three
\* labels are not keys of the dict
expected_sub_items ==
    [i \in 1..2 |->
       CASE i = 1 -> << <<"Video", " ", "clip">>, <<"Tuyen dung">>,
                        <<"Thong cao bao chi">> >>
         [] i = 2 -> << <<"Catalogue">>, <<"Trung tam bao hanh">>, <<"Hoi dap">> >>]

\* submenu_selectors
submenu_selectors == <<".sub-menu", ".dropdown-menu", "ul", ".submenu">>

Absent == [present |-> FALSE, links |-> <<>>]

\* position of the first TRUE of a list of tests, 0 if none: where a loop
\* with a break stops
FirstTrue(hits) ==
    IF \E i \in DOMAIN hits : hits[i]
    THEN CHOOSE i \in DOMAIN hits : hits[i] /\ \A j \in 1..(i - 1) : ~hits[j]
    ELSE 0

\* parent_element.find(selector): the first descendant whose tag name is
\* `selector`.  A parent element is given by the containers below it, in
\* document order, each with its tag name, its class and its <a href>
\* elements; no container lies inside another.
Find(parent, selector) ==
    LET k == FirstTrue([i \in DOMAIN parent.containers |->
                          parent.containers[i].tag = selector])
    IN  IF k = 0 THEN Absent
        ELSE [present |-> TRUE, links |-> parent.containers[k].links]

\* the URL stored for a sub-menu link
SubUrl(sub_url) ==
    IF StartsWith(sub_url, <<"/">>) THEN urljoin(base_url, sub_url) ELSE sub_url

\* the loop over sub_links of one container
RECURSIVE SubLinksLoop(_, _, _)
SubLinksLoop(sub_links, expected, sub_items) ==
    IF sub_links = <<>> THEN sub_items
    ELSE
      LET sub_text == Head(sub_links).text
          sub_url == Head(sub_links).href
          Match(e) == Contains(sub_text, e) \/ Contains(e, sub_text)
          k == FirstTrue([i \in DOMAIN expected |-> Match(expected[i])])
      IN  IF k # 0
          THEN SubLinksLoop(Tail(sub_links), expected,
                            Append(sub_items, [name |-> expected[k],
                                               url |-> SubUrl(sub_url),
                                               sub_items |-> <<>>]))
          ELSE SubLinksLoop(Tail(sub_links), expected, sub_items)

\* the loop over submenu_selectors
RECURSIVE SelectorLoop(_, _, _, _)
SelectorLoop(selectors, parent, expected, sub_items) ==
    IF selectors = <<>> THEN sub_items
    ELSE
      LET submenu == Find(parent, Head(selectors))
          found == IF submenu.present
                   THEN SubLinksLoop(submenu.links, expected, sub_items)
                   ELSE sub_items
      IN  IF submenu.present /\ found # <<>>
          THEN found
          ELSE SelectorLoop(Tail(selectors), parent, expected, found)

\* extract_sub_menus(parent_element, main_item_name), the name given by position
extract_sub_menus(parent, t) ==
    IF t \notin DOMAIN expected_sub_items THEN <<>>
    ELSE SelectorLoop(submenu_selectors, parent, expected_sub_items[t], <<>>)

\* "Make URL absolute if relative" of extract_main_menu
MainUrl(link_url) ==
    IF link_url # <<>> /\ StartsWith(link_url, <<"/">>)
    THEN urljoin(base_url, link_url)
    ELSE IF link_url # <<>> /\ ~StartsWith(link_url, <<"http">>)
    THEN urljoin(base_url, <<"/">> \o link_url)
    ELSE link_url

\* link.get('href', '')
HrefOf(link) == IF link.has_href THEN link.href ELSE <<>>

\* NavigationItem built from a matching link
NavItem(t, link) ==
    [name |-> TargetNames[t],
     url |-> MainUrl(HrefOf(link)),
     sub_items |-> extract_sub_menus(link.parent, t)]

\* soup.find_all('a', href=True), or every <a> when none has an href
AllLinks(links) ==
    LET withHref == SelectSeq(links, LAMBDA l : l.has_href)
    IN  IF withHref # <<>> THEN withHref ELSE links

\* the loop that matches link texts against the targets
RECURSIVE TextLoop(_, _)
TextLoop(links, target_items) ==
    IF links = <<>> THEN target_items
    ELSE
      LET link == Head(links)
          Hit(t) == Contains(link.text, TargetNames[t]) /\ target_items[t] = None
          t == FirstTrue([i \in 1..5 |-> Hit(i)])
      IN  IF t # 0
          THEN TextLoop(Tail(links),
                        [target_items EXCEPT ![t] = Some(NavItem(t, link))])
          ELSE TextLoop(Tail(links), target_items)

\* the fallback: the first link whose href contains a known path of target t
UrlFallback(all_links, target_items) ==
    [t \in 1..5 |->
       IF target_items[t] # None THEN target_items[t]
       ELSE LET Hit(link) == \E url_part \in url_mappings[t] :
                                Contains(HrefOf(link), url_part)
                k == FirstTrue([i \in DOMAIN all_links |-> Hit(all_links[i])])
            IN  IF k # 0 THEN Some(NavItem(t, all_links[k])) ELSE None]

\* the loop over the label list that builds navigation_items
RECURSIVE ConvertLoop(_, _)
ConvertLoop(order, target_items) ==
    IF order = <<>> THEN <<>>
    ELSE target_items[Head(order)] \o ConvertLoop(Tail(order), target_items)

FoundItemsSwapped(target_items) == ConvertLoop(<<1, 2, 4, 3, 5>>, target_items)

\* "Convert found items to list (maintain order)"
FoundItems(target_items) == ConvertLoop(<<1, 2, 3, 4, 5>>, target_items)

\* extract_main_menu(soup), the soup given by its <a> elements
extract_main_menu(links) ==
    LET all_links == AllLinks(links)
        byText == TextLoop(all_links, [t \in 1..5 |-> None])
        target_items == UrlFallback(all_links, byText)
    IN  FoundItems(target_items)


\* the <a> elements the documents are made of
MaxLinks == 3

SubVideo == [text |-> <<"Video", " ", "clip">>, href |-> <<"/", "video-clip", "/">>]
SubJobs == [text |-> <<"Tuyen dung">>, href |-> <<"tuyen-dung", "/">>]
SubCatalogue == [text |-> <<"Catalogue">>,
                 href |-> base_url \o <<"/", "catalogue", "/">>]
SubJobsAbsolute == [text |-> <<"Tuyen dung">>,
                    href |-> base_url \o <<"/", "tuyen-dung", "/">>]
SubOther == [text |-> <<"San pham">>, href |-> <<"/", "product", "/">>]

NoUl == [containers |-> <<>>]
UlOf(sub_links) ==
    [containers |-> <<[tag |-> "ul", class |-> "", links |-> sub_links]>>]
\* <div class="sub-menu"> followed by a <ul> without class
DivThenUl(div_links, ul_links) ==
    [containers |-> <<[tag |-> "div", class |-> "sub-menu", links |-> div_links],
                      [tag |-> "ul", class |-> "", links |-> ul_links]>>]
\* <ul class="sub-menu">, as WordPress menus have it
UlSubMenu(sub_links) ==
    [containers |-> <<[tag |-> "ul", class |-> "sub-menu", links |-> sub_links]>>]
\* <div class="dropdown-menu"> and no list
DivDropdown(sub_links) ==
    [containers |-> <<[tag |-> "div", class |-> "dropdown-menu",
                       links |-> sub_links]>>]

LinkIntro == [text |-> <<"Gioi thieu">>, has_href |-> TRUE,
              href |-> <<"/", "ve-chung-toi", "/">>,
              parent |-> UlOf(<<SubVideo, SubOther, SubJobs>>)]
LinkSupport == [text |-> <<"Ho tro khach hang">>, has_href |-> TRUE,
                href |-> <<"#">>, parent |-> UlSubMenu(<<SubCatalogue>>)]
LinkNews == [text |-> <<"Tin tuc">>, has_href |-> TRUE,
             href |-> base_url \o <<"/", "tin-tuc", "/">>, parent |-> NoUl]
LinkContact == [text |-> <<"Lien he">>, has_href |-> TRUE,
                href |-> <<"lien-he-alaska", "/">>, parent |-> NoUl]
LinkProjectByUrl == [text |-> <<"Xem them">>, has_href |-> TRUE,
                     href |-> <<"/", "project", "/">>, parent |-> NoUl]
LinkTwoLabels == [text |-> <<"Gioi thieu", " - ", "Lien he">>, has_href |-> TRUE,
                  href |-> <<"/", "gioi-thieu", "/">>, parent |-> UlOf(<<>>)]
LinkNoHref == [text |-> <<"Du an">>, has_href |-> FALSE, href |-> <<>>,
               parent |-> NoUl]
LinkEmptyHref == [text |-> <<"Tin tuc">>, has_href |-> TRUE, href |-> <<>>,
                  parent |-> NoUl]
\* the first label as a page in Vietnamese spells it
LinkIntroVietnamese == [text |-> <<"Gio+'i thie^.u">>, has_href |-> TRUE,
                        href |-> <<"/", "ve-chung-toi", "/">>, parent |-> NoUl]

\* a link to the contact page whose text is none of the labels
LinkContactByUrl == [text |-> <<"Xem them">>, has_href |-> TRUE,
                     href |-> <<"/", "lien-he", "/">>, parent |-> NoUl]

\* menu entries whose sub-menu is not, or not only, a list
LinkIntroDiv == [text |-> <<"Gioi thieu">>, has_href |-> TRUE,
                 href |-> <<"/", "gioi-thieu", "/">>,
                 parent |-> DivThenUl(<<SubVideo>>, <<SubJobsAbsolute>>)]
LinkSupportDropdown == [text |-> <<"Ho tro khach hang">>, has_href |-> TRUE,
                        href |-> <<"/", "ho-tro", "/">>,
                        parent |-> DivDropdown(<<SubCatalogue>>)]
\* an entry without expected sub-items, above a list that holds some
LinkNewsWithList == [text |-> <<"Tin tuc">>, has_href |-> TRUE,
                     href |-> <<"/", "tin-tuc", "/">>,
                     parent |-> UlOf(<<SubVideo, SubCatalogue>>)]

LinkPool == {LinkIntro, LinkSupport, LinkNews, LinkContact, LinkProjectByUrl,
             LinkTwoLabels, LinkNoHref, LinkEmptyHref, LinkIntroVietnamese,
             LinkContactByUrl, LinkIntroDiv, LinkSupportDropdown,
             LinkNewsWithList}

\* extract_main_menu applied to a document
ExtractMainMenu ==
    /\ program = "main_menu"
    /\ pc = "start"
    /\ navigation_items' = extract_main_menu(soup_links)
    /\ pc' = "done"
    /\ UNCHANGED <<program, firecrawl, soup_links, lastFetch>>
    /\ UNCHANGED <<crawlVars, navVars, priceVars, pageVars>>

InitMenu ==
    /\ program = "main_menu"
    /\ firecrawl = FALSE
    /\ pc = "start"
    /\ lastFetch = NoFetch
    /\ soup_links \in SeqsUpTo(LinkPool, MaxLinks)
    /\ navigation_items = <<>>
    /\ CrawlIdle /\ NavIdle /\ PriceIdle /\ PageIdle

NextMenu == ExtractMainMenu

SpecMenu == InitMenu /\ [][NextMenu]_vars


----------------------------------------------------------------------------
(* AlaskaHeaderScraper: scrape_all_navigation_content *)

\* <a> elements of a home page at most
MaxHomeLinks == 2

HomeLinkPool == {LinkIntro, LinkSupport, LinkNews, LinkContact}

\* what requests can give for a URL: without scheme and host it raises
DirectResults(url) == IF IsAbsolute(url) THEN FetchResults ELSE {"error"}

\* what Firecrawl can give once the direct request has given `direct`
FirecrawlResults(direct) ==
    IF firecrawl /\ direct = "error" THEN FetchResults ELSE {"unused"}

\* extract_page_content: None without content, else the PageContent of the page
extract_page_content(url, content) ==
    IF NoContent(content) THEN None ELSE Some([source |-> url])

SubPageOrPlaceholder(pages, sub_item, sub_content) ==
    Append(pages, [name |-> sub_item.name, url |-> sub_item.url,
                   content |-> sub_content, sub_pages |-> <<>>])

\* `if sub_content: sub_pages.append(NavigationPageDetail(...))`
WithSubPage(pages, sub_item, sub_content) ==
    IF sub_content # None
    THEN Append(pages, [name |-> sub_item.name, url |-> sub_item.url,
                        content |-> sub_content, sub_pages |-> <<>>])
    ELSE pages

SubItemsDoneAfterFirst(nav_item, s) == s > 1 \/ s > Len(nav_item.sub_items)

\* the loop over nav_item.sub_items has run out
SubItemsDone(nav_item, s) == s > Len(nav_item.sub_items)

\* scrape_header_navigation, called first; None ends the scrape
ScrapeHeader ==
    /\ program = "navigation"
    /\ pc = "header"
    /\ \E direct \in DirectResults(home_url) : \E fc \in FirecrawlResults(direct) :
         LET fetch == header_get_page_content(firecrawl, direct, fc)
         IN  /\ lastFetch' = fetch
             /\ IF NoContent(fetch.content)
                THEN /\ pc' = "failed"
                     /\ UNCHANGED main_navigation
                ELSE /\ pc' = "main"
                     /\ main_navigation' = extract_main_menu(home)
    /\ UNCHANGED <<program, firecrawl, home, navigation_pages, sub_pages,
                   total_pages, mi, si, main_content, events>>
    /\ UNCHANGED <<crawlVars, menuVars, priceVars, pageVars>>

MainContentIgnored(content) == TRUE

\* `if main_content:`, which guards the sub-pages and the record of a main page
HasMainContent(content) == content # None

\* main_content = self.extract_page_content(nav_item.url, nav_item.name)
FetchMain ==
    /\ program = "navigation"
    /\ pc = "main"
    /\ mi <= Len(main_navigation)
    /\ LET nav_item == main_navigation[mi]
       IN  \E direct \in DirectResults(nav_item.url) :
           \E fc \in FirecrawlResults(direct) :
             LET fetch == header_get_page_content(firecrawl, direct, fc)
                 content == extract_page_content(nav_item.url, fetch.content)
             IN  /\ lastFetch' = fetch
                 /\ events' = Append(events, [op |-> "fetch", main |-> mi, sub |-> 0,
                                              ok |-> content # None])
                 /\ main_content' = content
                 /\ IF HasMainContent(content)
                    THEN /\ pc' = "sub"
                         /\ sub_pages' = <<>>
                         /\ si' = 1
                         /\ UNCHANGED mi
                    ELSE /\ mi' = mi + 1
                         /\ UNCHANGED <<pc, sub_pages, si>>
    /\ UNCHANGED <<program, firecrawl, home, main_navigation, navigation_pages,
                   total_pages>>
    /\ UNCHANGED <<crawlVars, menuVars, priceVars, pageVars>>

CountPageTwice(total) == total + 2

\* total_pages += 1
CountPage(total) == total + 1

\* one iteration of the loop over nav_item.sub_items
FetchSub ==
    /\ program = "navigation"
    /\ pc = "sub"
    /\ ~SubItemsDone(main_navigation[mi], si)
    /\ LET sub_item == main_navigation[mi].sub_items[si]
       IN  \E direct \in DirectResults(sub_item.url) :
           \E fc \in FirecrawlResults(direct) :
             LET fetch == header_get_page_content(firecrawl, direct, fc)
                 sub_content == extract_page_content(sub_item.url, fetch.content)
             IN  /\ lastFetch' = fetch
                 /\ events' = Append(events, [op |-> "fetch", main |-> mi, sub |-> si,
                                              ok |-> sub_content # None])
                 /\ sub_pages' = WithSubPage(sub_pages, sub_item, sub_content)
                 /\ total_pages' = IF sub_content # None THEN CountPage(total_pages)
                                   ELSE total_pages
                 /\ si' = si + 1
    /\ UNCHANGED <<program, firecrawl, pc, home, main_navigation, navigation_pages,
                   mi, main_content>>
    /\ UNCHANGED <<crawlVars, menuVars, priceVars, pageVars>>

PrependPage(pages, detail) == <<detail>> \o pages

\* navigation_pages.append(NavigationPageDetail(...))
AppendPage(pages, detail) == Append(pages, detail)

\* "Create main page detail", after the loop over the sub-items
AppendMain ==
    /\ program = "navigation"
    /\ pc = "sub"
    /\ SubItemsDone(main_navigation[mi], si)
    /\ navigation_pages' = AppendPage(navigation_pages,
                                      [name |-> main_navigation[mi].name,
                                       url |-> main_navigation[mi].url,
                                       content |-> main_content,
                                       sub_pages |-> sub_pages])
    /\ total_pages' = CountPage(total_pages)
    /\ events' = Append(events, [op |-> "append", main |-> mi, sub |-> 0, ok |-> TRUE])
    /\ mi' = mi + 1
    /\ pc' = "main"
    /\ UNCHANGED <<program, firecrawl, lastFetch, home, main_navigation, sub_pages,
                   si, main_content>>
    /\ UNCHANGED <<crawlVars, menuVars, priceVars, pageVars>>

\* return AlaskaFullNavigation(...)
ReturnNavigation ==
    /\ program = "navigation"
    /\ pc = "main"
    /\ mi > Len(main_navigation)
    /\ pc' = "done"
    /\ UNCHANGED <<program, firecrawl, lastFetch, navVars>>
    /\ UNCHANGED <<crawlVars, menuVars, priceVars, pageVars>>

InitNav ==
    /\ program = "navigation"
    /\ firecrawl \in BOOLEAN
    /\ pc = "header"
    /\ lastFetch = NoFetch
    /\ home \in SeqsUpTo(HomeLinkPool, MaxHomeLinks)
    /\ main_navigation = <<>> /\ navigation_pages = <<>> /\ sub_pages = <<>>
    /\ total_pages = 0 /\ mi = 1 /\ si = 1 /\ main_content = None /\ events = <<>>
    /\ CrawlIdle /\ MenuIdle /\ PriceIdle /\ PageIdle

NextNav == ScrapeHeader \/ FetchMain \/ FetchSub \/ AppendMain \/ ReturnNavigation

SpecNav == InitNav /\ [][NextNav]_vars


----------------------------------------------------------------------------
(* AlaskaScraper.extract_prices *)

\* characters of a matched price text at most
MaxPriceLen == 4

Digits == {"0", "1", "2", "3", "4", "5", "6", "7", "8", "9"}

\* the class [,.\s] removed by re.sub
Separators == {",", ".", " "}

\* the characters the price texts are made of, all within [\d,.\s]
PriceChars == {"0", "1", ",", ".", " "}

\* clean_price = re.sub(r'[,.\s]', '', price)
CleanPrice(price) == SelectSeq(price, LAMBDA c : c \notin Separators)

\* str.isdigit
IsDigit(str) == str # <<>> /\ \A i \in DOMAIN str : str[i] \in Digits

DigitValue(c) == CHOOSE d \in 0..9 : ToString(d) = c

\* int(str) of a digit string
RECURSIVE IntOf(_)
IntOf(str) ==
    IF str = <<>> THEN 0
    ELSE 10 * IntOf(SubSeq(str, 1, Len(str) - 1)) + DigitValue(str[Len(str)])

\* str(n) of a natural number
RECURSIVE Decimal(_)
Decimal(n) ==
    IF n < 10 THEN <<ToString(n)>>
    ELSE Decimal(n \div 10) \o <<ToString(n % 10)>>

\* three digits, zero-padded
Group3(n) == <<ToString(n \div 100), ToString((n \div 10) % 10), ToString(n % 10)>>

FormatPlain(n) == Decimal(n)

\* f"{n:,}"
RECURSIVE FormatComma(_)
FormatComma(n) ==
    IF n < 1000 THEN Decimal(n)
    ELSE FormatComma(n \div 1000) \o <<",">> \o Group3(n % 1000)

\* formatted_price = f"{int(clean_price):,} VND"
FormattedPrice(clean_price) == FormatComma(IntOf(clean_price)) \o <<" ", "VND">>

\* the loops over the patterns and their matches
RECURSIVE PriceLoop(_, _)
PriceLoop(matches, acc) ==
    IF matches = <<>> THEN acc
    ELSE
      LET region == Head(matches).region
          clean_price == CleanPrice(Head(matches).price)
      IN  IF IsDigit(clean_price)
          THEN PriceLoop(Tail(matches),
                         [r \in DOMAIN acc \cup {region} |->
                            IF r = region THEN FormattedPrice(clean_price)
                            ELSE acc[r]])
          ELSE PriceLoop(Tail(matches), acc)

\* extract_prices, the text given by the matches of the patterns
extract_prices(matches) == PriceLoop(matches, <<>>)

PriceTexts == SeqsUpTo(PriceChars, MaxPriceLen) \ {<<>>}

FirstMatches == [region : {"MIEN BAC", "MIEN NAM"}, price : PriceTexts]

LaterMatches ==
    {<<>>,
     <<[region |-> "MIEN BAC", price |-> <<"1", "0", ".", "0", "0", "0">>]>>,
     <<[region |-> "MIEN NAM", price |-> <<" ">>]>>}

ExtractPrices ==
    /\ program = "prices"
    /\ pc = "start"
    /\ prices' = extract_prices(price_matches)
    /\ pc' = "done"
    /\ UNCHANGED <<program, firecrawl, price_matches, lastFetch>>
    /\ UNCHANGED <<crawlVars, navVars, menuVars, pageVars>>

InitPrices ==
    /\ program = "prices"
    /\ firecrawl = FALSE
    /\ pc = "start"
    /\ lastFetch = NoFetch
    /\ price_matches \in {<<m>> \o later : m \in FirstMatches, later \in LaterMatches}
    /\ prices = <<>>
    /\ CrawlIdle /\ NavIdle /\ MenuIdle /\ PageIdle

NextPrices == ExtractPrices

SpecPrices == InitPrices /\ [][NextPrices]_vars

----------------------------------------------------------------------------
(* AlaskaHeaderScraper.extract_page_content: the contact phone *)

\* The extractors below read the page text one character at a time: their
\* strings are sequences of characters.

Whitespace == {" ", "\t", "\n"}

\* str.strip
RECURSIVE Strip(_)
Strip(str) ==
    IF str # <<>> /\ str[1] \in Whitespace THEN Strip(Tail(str))
    ELSE IF str # <<>> /\ str[Len(str)] \in Whitespace
    THEN Strip(SubSeq(str, 1, Len(str) - 1))
    ELSE str

\* clean_phone = re.sub(r'[^\d+]', '', match)
CleanPhone(match) == SelectSeq(match, LAMBDA c : c \in Digits \cup {"+"})

\* if len(clean_phone) >= 10
PhoneAccepted(match) == Len(CleanPhone(match)) >= 10

\* the loops over phone_patterns and over the matches of each pattern; both
\* stop at the first accepted match
RECURSIVE PhoneLoop(_, _)
PhoneLoop(matches_by_pattern, contact_info) ==
    IF matches_by_pattern = <<>> THEN contact_info
    ELSE
      LET matches == Head(matches_by_pattern)
          k == FirstTrue([i \in DOMAIN matches |-> PhoneAccepted(matches[i])])
      IN  IF k # 0
          THEN [key \in {"phone"} |-> Strip(matches[k])]
          ELSE PhoneLoop(Tail(matches_by_pattern), contact_info)

\* contact_info after the phone patterns, the text given by the matches
\* re.findall yields for each of the three patterns
contact_phone(matches_by_pattern) == PhoneLoop(matches_by_pattern, <<>>)

\* matches of one pattern at most
MaxPhoneMatches == 2

\* matches of (?:Tel|Phone|...)[:\s]*([+\d\s\-\(\)]{10,})
LabelledPhones ==
    {<<"0", "2", "8", "-", "3", "8", "1", "-", "2", "3", "4">>,
     <<"+", "8", "4", " ", "3", "8", "1", " ", "2", "3", "4", "5">>,
     <<"0", "2", "8", "3", "8", "1", "2", "3", "4", "5", " ">>,
     <<"(", "+", "8", "4", ")", " ", "-", " ", "(", "0", ")", " ">>}

\* matches of (\+84[^\s]{9,})
IntlPhones ==
    {<<"+", "8", "4", "3", "8", "1", "2", "3", "4", "5", "6", "7">>,
     <<"+", "8", "4", "-", "3", "8", "1", "-", "2", "3", "4", "5">>,
     <<"+", "8", "4", ".", "a", "b", "c", "@", "x", ".", "v", "n">>}

\* matches of (0[1-9]\d{8,9})
LocalPhones ==
    {<<"0", "9", "1", "2", "3", "4", "5", "6", "7", "8">>,
     <<"0", "9", "1", "2", "3", "4", "5", "6", "7", "8", "9">>}

\* the phone part of extract_page_content applied to a page
ExtractPhone ==
    /\ program = "phone"
    /\ pc = "start"
    /\ returned' = contact_phone(soup)
    /\ pc' = "done"
    /\ UNCHANGED <<program, firecrawl, soup, lastFetch>>
    /\ UNCHANGED <<crawlVars, navVars, menuVars, priceVars>>

InitPhone ==
    /\ program = "phone"
    /\ firecrawl = FALSE
    /\ pc = "start"
    /\ lastFetch = NoFetch
    /\ soup \in {<<a, b, c>> : a \in SeqsUpTo(LabelledPhones, MaxPhoneMatches),
                                b \in SeqsUpTo(IntlPhones, MaxPhoneMatches),
                                c \in SeqsUpTo(LocalPhones, MaxPhoneMatches)}
    /\ returned = <<>>
    /\ CrawlIdle /\ NavIdle /\ MenuIdle /\ PriceIdle

NextPhone == ExtractPhone

SpecPhone == InitPhone /\ [][NextPhone]_vars

----------------------------------------------------------------------------
(* AlaskaScraper.extract_specifications *)

\* The letters with two cases that occur in the texts.  A Vietnamese letter
\* is one character, written as its base letter followed by its marks (D- ,
\* E^ , A' , I' , O. , U+ , O+' , O+. and their lower cases); deg is the
\* degree sign.
LowerChars ==
    <<"a", "b", "c", "d", "e", "f", "g", "h", "i", "j", "k", "l", "m",
      "n", "o", "p", "q", "r", "s", "t", "u", "v", "w", "x", "y", "z",
      "d-", "e^", "a'", "i'", "o.", "u+", "o+'", "o+.">>
UpperChars ==
    <<"A", "B", "C", "D", "E", "F", "G", "H", "I", "J", "K", "L", "M",
      "N", "O", "P", "Q", "R", "S", "T", "U", "V", "W", "X", "Y", "Z",
      "D-", "E^", "A'", "I'", "O.", "U+", "O+'", "O+.">>

UpperChar(c) ==
    IF \E i \in DOMAIN LowerChars : LowerChars[i] = c
    THEN UpperChars[CHOOSE i \in DOMAIN LowerChars : LowerChars[i] = c]
    ELSE c

UpperUnchanged(str) == str

\* str.upper
Upper(str) == [i \in DOMAIN str |-> UpperChar(str[i])]

\* the words of the price filter
CurrencyWord == <<"V", "N", "D-">>
RegionWord == <<"M", "I", "E^", "N">>

\* the labels of spec_patterns[0..18]: the text before the first \s* with
\* the ? and the parentheses removed
spec_labels ==
    << <<"K", "i", "c", "h", " ", "t", "h", "u", "o", "c">>,
      <<"T", "r", "o", "n", "g", " ", "l", "u", "o", "n", "g">>,
      <<"D", "u", "n", "g", " ", "t", "i", "c", "h">>,
      <<"N", "h", "i", "e", "t", " ", "d", "o">>,
      <<"C", "o", "n", "g", " ", "s", "u", "a", "t">>,
      <<"D", "i", "e", "n", " ", "a", "p">>,
      <<"G", "a", "s">>,
      <<"M", "o", "i", " ", "c", "h", "a", "t">>,
      <<"T", "a", "n", " ", "s", "o">>,
      <<"C", "h", "a", "t", " ", "l", "a", "m", " ", "l", "a", "n", "h">>,
      <<"X", "u", "a", "t", " ", "x", "u">>,
      <<"B", "a", "o", " ", "h", "a", "n", "h">>,
      <<"D", "i", "m", "e", "n", "s", "i", "o", "n", "s">>,
      <<"W", "e", "i", "g", "h", "t">>,
      <<"C", "a", "p", "a", "c", "i", "t", "y">>,
      <<"T", "e", "m", "p", "e", "r", "a", "t", "u", "r", "e">>,
      <<"P", "o", "w", "e", "r">>,
      <<"V", "o", "l", "t", "a", "g", "e">>,
      <<"R", "e", "f", "r", "i", "g", "e", "r", "a", "n", "t">> >>

\* 'VND' not in value.upper() and 'MIEN' not in value.upper()
NotPriceRelated(value) ==
    /\ ~Contains(Upper(value), CurrencyWord)
    /\ ~Contains(Upper(value), RegionWord)

\* any(c.isdigit() for c in value)
AnyDigit(value) == \E i \in DOMAIN value : value[i] \in Digits

\* the key chosen from the format of the value (the else branch of i < 12);
\* None where the code continues without storing
ShapeKey(value) ==
    IF Contains(value, <<"x">>) /\ Contains(value, <<"m", "m">>)
    THEN Some(spec_labels[13])
    ELSE IF Contains(value, <<"k", "g">>) THEN Some(spec_labels[14])
    ELSE IF Contains(value, <<"L">>) THEN Some(spec_labels[15])
    ELSE IF StartsWith(value, <<"R">>) /\ AnyDigit(value)
    THEN Some(spec_labels[19])
    ELSE IF Contains(value, <<"~">>) /\ Contains(value, <<"deg", "C">>)
    THEN Some(spec_labels[16])
    ELSE IF Contains(value, <<"W">>)
            /\ IsDigit(SubSeq(value, 1, Len(value) - 1))
    THEN Some(spec_labels[17])
    ELSE IF Contains(value, <<"V">>) \/ Contains(value, <<"H", "z">>)
    THEN Some(spec_labels[18])
    ELSE None

\* the key of a match of spec_patterns[i]
SpecKey(i, value) == IF i < 12 THEN Some(spec_labels[i + 1]) ELSE ShapeKey(value)

PutIfAbsent(dict, key, value) ==
    [k \in DOMAIN dict \cup {key} |-> IF k \in DOMAIN dict THEN dict[k] ELSE value]

\* dict[key] = value
Put(dict, key, value) ==
    [k \in DOMAIN dict \cup {key} |-> IF k = key THEN value ELSE dict[k]]

\* the loops over spec_patterns and over the matches of each pattern
RECURSIVE SpecPatternLoop(_, _)
SpecPatternLoop(matches, specs) ==
    IF matches = <<>> THEN specs
    ELSE
      LET i == Head(matches).i
          value == Strip(Head(matches).value)
          key == SpecKey(i, value)
      IN  IF value # <<>> /\ Len(value) < 100 /\ NotPriceRelated(value)
             /\ key # None
          THEN SpecPatternLoop(Tail(matches), Put(specs, key[1], value))
          ELSE SpecPatternLoop(Tail(matches), specs)

\* the loops over the tables and their rows; a row is given by the stripped
\* texts of its first two cells
RECURSIVE SpecTableLoop(_, _)
SpecTableLoop(rows, specs) ==
    IF rows = <<>> THEN specs
    ELSE
      LET key == Head(rows).key
          value == Head(rows).value
      IN  IF key # <<>> /\ value # <<>> /\ Len(value) < 100
             /\ ~Contains(Upper(value), CurrencyWord)
             /\ ~Contains(Upper(key), RegionWord)
             /\ ~Contains(Upper(value), RegionWord)
          THEN SpecTableLoop(Tail(rows), Put(specs, key, value))
          ELSE SpecTableLoop(Tail(rows), specs)

\* extract_specifications(soup): the text given by the matches of the
\* patterns in loop order, the tables by their rows of two cells or more
extract_specifications(doc) ==
    SpecTableLoop(doc.rows, SpecPatternLoop(doc.matches, <<>>))

\* matches of the patterns and rows of the tables at most
MaxSpecMatches == 3
MaxSpecRows == 1

\* a string of n characters c
Chars(c, n) == [k \in 1..n |-> c]

\* matches of the labelled patterns ([^\n]+ after the label) and of the
\* unlabelled ones
SpecMatchPool ==
    {[i |-> 6, value |-> <<"R", "3", "2">>],
     [i |-> 6, value |-> <<"5", " ", "v", "n", "d-">>],
     [i |-> 6, value |-> <<"M", "i", "e^", "n", " ", "A">>],
     [i |-> 6, value |-> <<" ">>],
     [i |-> 6, value |-> Chars("7", 100)],
     [i |-> 13, value |-> <<"5", "0", " ", "k", "g">>],
     [i |-> 13, value |-> <<"9", " ", "l", "b">>],
     [i |-> 16, value |-> <<"5", " ", "k", "g">>],
     [i |-> 16, value |-> <<"9", "0", "W">>],
     [i |-> 19, value |-> <<"6", "x", "4", "x", "3">>],
     [i |-> 20, value |-> <<"5", "0">>],
     [i |-> 22, value |-> <<"R", "3", "2">>],
     [i |-> 24, value |-> <<"7", "5", "W">>]}

\* the matches come in the order of the patterns
InPatternOrder(matches) ==
    \A a, b \in DOMAIN matches : a < b => matches[a].i <= matches[b].i

SpecRowPool ==
    {[key |-> <<"G", "a", "s">>, value |-> <<"R", "6", "0", "0">>],
     [key |-> <<"W", "e", "i", "g", "h", "t">>, value |-> <<"7", " ", "k", "g">>],
     [key |-> <<"G", "a", "s">>, value |-> <<"5", " ", "V", "N", "D-">>],
     [key |-> <<"G", "a", "s">>, value |-> <<"m", "i", "e^", "n">>],
     [key |-> <<"M", "I", "E^", "N", " ", "A">>, value |-> <<"5">>],
     [key |-> <<>>, value |-> <<"x">>],
     [key |-> <<"x">>, value |-> Chars("7", 100)]}

SpecPages ==
    {[matches |-> m, rows |-> r] :
        m \in {s \in SeqsUpTo(SpecMatchPool, MaxSpecMatches) : InPatternOrder(s)},
        r \in SeqsUpTo(SpecRowPool, MaxSpecRows)}

\* extract_specifications applied to a page
ExtractSpecifications ==
    /\ program = "specifications"
    /\ pc = "start"
    /\ returned' = extract_specifications(soup)
    /\ pc' = "done"
    /\ UNCHANGED <<program, firecrawl, soup, lastFetch>>
    /\ UNCHANGED <<crawlVars, navVars, menuVars, priceVars>>

InitSpecifications ==
    /\ program = "specifications"
    /\ firecrawl = FALSE
    /\ pc = "start"
    /\ lastFetch = NoFetch
    /\ soup \in SpecPages
    /\ returned = <<>>
    /\ CrawlIdle /\ NavIdle /\ MenuIdle /\ PriceIdle

NextSpecifications == ExtractSpecifications

SpecSpecifications == InitSpecifications /\ [][NextSpecifications]_vars

\* the two mapping-shaped fields
InitMappings == InitPrices \/ InitSpecifications

NextMappings == ExtractPrices \/ ExtractSpecifications

SpecMappings == InitMappings /\ [][NextMappings]_vars

----------------------------------------------------------------------------
(* AlaskaScraper.extract_features *)

\* the loop over the <li> texts of the feature containers
RECURSIVE FeatureItemLoop(_, _)
FeatureItemLoop(items, features) ==
    IF items = <<>> THEN features
    ELSE
      LET feature_text == Strip(Head(items))
      IN  IF feature_text # <<>> /\ Len(feature_text) < 200
          THEN FeatureItemLoop(Tail(items), Append(features, feature_text))
          ELSE FeatureItemLoop(Tail(items), features)

\* the loop over the bullet patterns and their matches
RECURSIVE FeatureBulletLoop(_, _)
FeatureBulletLoop(matches, features) ==
    IF matches = <<>> THEN features
    ELSE
      LET feature_text == Strip(Head(matches))
      IN  IF Len(feature_text) > 10 /\ Len(feature_text) < 200
          THEN FeatureBulletLoop(Tail(matches), Append(features, feature_text))
          ELSE FeatureBulletLoop(Tail(matches), features)

\* `features` before the return: the list items, then the bullet lines
FeaturesFound(doc) ==
    FeatureBulletLoop(doc.bullets, FeatureItemLoop(doc.items, <<>>))

\* list(set(features)): the distinct entries in any order
extract_features(doc) == Perms(Range(FeaturesFound(doc)))

\* list items and bullet lines of a page at most
MaxFeatures == 2

\* texts of the <li> elements of the feature containers
FeatureItemPool ==
    {<<>>, Chars("a", 4), Chars("a", 11), Chars("a", 200)}

\* matches of [^\n]+ after a bullet or a dash
FeatureBulletPool ==
    {Chars("a", 10), Chars("a", 11), <<" ">> \o Chars("b", 11) \o <<" ">>,
     Chars("b", 199)}

FeaturePages ==
    [items : SeqsUpTo(FeatureItemPool, MaxFeatures),
     bullets : SeqsUpTo(FeatureBulletPool, MaxFeatures)]

\* extract_features applied to a page
ExtractFeatures ==
    /\ program = "features"
    /\ pc = "start"
    /\ returned' \in extract_features(soup)
    /\ pc' = "done"
    /\ UNCHANGED <<program, firecrawl, soup, lastFetch>>
    /\ UNCHANGED <<crawlVars, navVars, menuVars, priceVars>>

InitFeatures ==
    /\ program = "features"
    /\ firecrawl = FALSE
    /\ pc = "start"
    /\ lastFetch = NoFetch
    /\ soup \in FeaturePages
    /\ returned = <<>>
    /\ CrawlIdle /\ NavIdle /\ MenuIdle /\ PriceIdle

NextFeatures == ExtractFeatures

SpecFeatures == InitFeatures /\ [][NextFeatures]_vars

----------------------------------------------------------------------------
(* AlaskaScraper.extract_images *)

LowerChar(c) ==
    IF \E i \in DOMAIN UpperChars : UpperChars[i] = c
    THEN LowerChars[CHOOSE i \in DOMAIN UpperChars : UpperChars[i] = c]
    ELSE c

\* str.lower
Lower(str) == [i \in DOMAIN str |-> LowerChar(str[i])]

\* the extensions that make an image a product image
image_extensions ==
    {<<".", "j", "p", "g">>, <<".", "j", "p", "e", "g">>, <<".", "p", "n", "g">>,
     <<".", "w", "e", "b", "p">>}

\* the words of "Skip common non-product images"
image_skips ==
    {<<"l", "o", "g", "o">>, <<"i", "c", "o", "n">>,
     <<"b", "a", "n", "n", "e", "r">>, <<"h", "e", "a", "d", "e", "r">>,
     <<"f", "o", "o", "t", "e", "r">>}

\* the loop over img_elements
RECURSIVE ImageLoop(_, _)
ImageLoop(img_elements, images) ==
    IF img_elements = <<>> THEN images
    ELSE
      LET src == Head(img_elements)
          full_url == urljoin(base_url, src)
      IN  IF /\ src # <<>>
             /\ \E ext \in image_extensions : Contains(Lower(src), ext)
             /\ ~\E skip \in image_skips : Contains(Lower(src), skip)
             /\ ~\E k \in DOMAIN images : images[k] = full_url
          THEN ImageLoop(Tail(img_elements), Append(images, full_url))
          ELSE ImageLoop(Tail(img_elements), images)

\* extract_images(soup), the soup given by the src of its <img src=...>
\* elements, in document order
extract_images(img_elements) == ImageLoop(img_elements, <<>>)

\* <img> elements of a page at most
MaxImages == 3

\* values of the src attribute; the scheme of an absolute one is written as
\* in base_url
ImageSrcPool ==
    {<<>>,
     <<"/", "a", ".", "j", "p", "g">>,
     <<"a", ".", "j", "p", "g">>,
     <<"/", "b", ".", "P", "N", "G">>,
     <<"/", "L", "O", "G", "O", ".", "p", "n", "g">>,
     <<"/", "c", ".", "g", "i", "f">>,
     <<"l", "o", "\t", "g", "o", ".", "j", "p", "g">>,
     <<"http", "s", ":", "/", "/", "c", "d", "n", "/", "a", ".", "j", "p", "g">>}

\* extract_images applied to a page
ExtractImages ==
    /\ program = "images"
    /\ pc = "start"
    /\ returned' = extract_images(soup)
    /\ pc' = "done"
    /\ UNCHANGED <<program, firecrawl, soup, lastFetch>>
    /\ UNCHANGED <<crawlVars, navVars, menuVars, priceVars>>

InitImages ==
    /\ program = "images"
    /\ firecrawl = FALSE
    /\ pc = "start"
    /\ lastFetch = NoFetch
    /\ soup \in SeqsUpTo(ImageSrcPool, MaxImages)
    /\ returned = <<>>
    /\ CrawlIdle /\ NavIdle /\ MenuIdle /\ PriceIdle

NextImages == ExtractImages

SpecImages == InitImages /\ [][NextImages]_vars

----------------------------------------------------------------------------
(* AlaskaScraper.extract_product_details: the scalar fields *)

\* title_selectors, desc_selectors, short_desc_selectors, content_selectors
title_selectors == <<"h1", ".product-title", ".entry-title">>
desc_selectors == <<".product-description", ".entry-content", ".description",
                    ".summary">>
short_desc_selectors ==
    <<".short-description", ".product-short-description", ".excerpt",
      ".summary .excerpt", ".woocommerce-product-details__short-description",
      "[class*=short]", ".entry-summary .excerpt">>
content_selectors == <<".entry-content", ".product-content", ".content">>

Selectors ==
    Range(title_selectors) \cup Range(desc_selectors)
        \cup Range(short_desc_selectors) \cup Range(content_selectors)

\* soup.select_one(selector): None, or the first element that matches, given
\* by its stripped text and the stripped text of its first <p>, if any
select_one(doc, selector) == doc.elements[selector]

\* str[:n]
Truncate(str, n) == SubSeq(str, 1, IF Len(str) < n THEN Len(str) ELSE n)

\* str.split(sep)[0]
RECURSIVE BeforeFirst(_, _)
BeforeFirst(str, sep) ==
    IF str = <<>> \/ Head(str) = sep THEN <<>>
    ELSE <<Head(str)>> \o BeforeFirst(Tail(str), sep)

\* the loop over title_selectors: the text of the first element found
RECURSIVE NameLoop(_, _)
NameLoop(selectors, doc) ==
    IF selectors = <<>> THEN <<>>
    ELSE LET element == select_one(doc, Head(selectors))
         IN  IF element # None THEN Strip(element[1].text)
             ELSE NameLoop(Tail(selectors), doc)

\* "Extract product name" and "Fallback to page title"
ProductName(doc) ==
    LET name == NameLoop(title_selectors, doc)
    IN  IF name = <<>> /\ doc.title # None
        THEN Strip(BeforeFirst(BeforeFirst(Strip(doc.title[1]), "|"), "-"))
        ELSE name

\* "Extract full description": the text of the first element found
RECURSIVE DescriptionLoop(_, _)
DescriptionLoop(selectors, doc) ==
    IF selectors = <<>> THEN <<>>
    ELSE LET element == select_one(doc, Head(selectors))
         IN  IF element # None THEN Truncate(Strip(element[1].text), 1000)
             ELSE DescriptionLoop(Tail(selectors), doc)

\* the loop over short_desc_selectors; short_description keeps the text of
\* the latest element found, the loop stops at a text of more than 20
\* characters
RECURSIVE ShortSelectorLoop(_, _, _)
ShortSelectorLoop(selectors, doc, short_description) ==
    IF selectors = <<>> THEN short_description
    ELSE LET element == select_one(doc, Head(selectors))
         IN  IF element = None
             THEN ShortSelectorLoop(Tail(selectors), doc, short_description)
             ELSE LET text == Strip(element[1].text)
                  IN  IF text # <<>> /\ Len(text) > 20 THEN text
                      ELSE ShortSelectorLoop(Tail(selectors), doc, text)

\* the loop over content_selectors: the first paragraph of a content element
RECURSIVE ContentLoop(_, _)
ContentLoop(selectors, doc) ==
    IF selectors = <<>> THEN <<>>
    ELSE LET element == select_one(doc, Head(selectors))
             text == IF element # None /\ element[1].p # None
                     THEN Strip(element[1].p[1]) ELSE <<>>
         IN  IF text # <<>> /\ Len(text) > 20 /\ Len(text) < 500 THEN text
             ELSE ContentLoop(Tail(selectors), doc)

\* the words a line of the last resort must not contain
line_skips ==
    {<<"G", "I", "A'">>, RegionWord, CurrencyWord, <<"M", "S", "P", ":">>,
     <<"K", "I'", "C", "H", "u+", "o+'", "c">>,
     <<"T", "R", "O.", "N", "G", " ", "L", "U+", "O+.", "N", "G">>}

\* the loop over the lines of the page text
RECURSIVE LineLoop(_)
LineLoop(lines) ==
    IF lines = <<>> THEN <<>>
    ELSE LET line == Strip(Head(lines))
         IN  IF /\ line # <<>> /\ Len(line) > 20 /\ Len(line) < 300
                /\ ~\E skip \in line_skips : Contains(Upper(line), skip)
             THEN line
             ELSE LineLoop(Tail(lines))

\* the texts of a list of selectors' elements, as lines
RECURSIVE TextsOf(_, _)
TextsOf(selectors, doc) ==
    IF selectors = <<>> THEN <<>>
    ELSE LET element == select_one(doc, Head(selectors))
         IN  (IF element # None THEN <<element[1].text>> ELSE <<>>)
                 \o TextsOf(Tail(selectors), doc)

\* soup.get_text().split('\n') of a page that has the title, then every
\* element and then its other lines, each on a line of its own
PageLines(doc) ==
    doc.title
      \o TextsOf(title_selectors \o desc_selectors \o short_desc_selectors
                   \o Tail(content_selectors), doc)
      \o doc.lines

\* extract_short_description(soup)
extract_short_description(doc) ==
    LET dedicated == ShortSelectorLoop(short_desc_selectors, doc, <<>>)
        paragraph == IF dedicated = <<>> THEN ContentLoop(content_selectors, doc)
                     ELSE dedicated
        line == IF paragraph = <<>> THEN LineLoop(PageLines(doc)) ELSE paragraph
    IN  Truncate(line, 500)

\* the name, short_description and description of product_data
ScalarFields(doc) ==
    [name |-> ProductName(doc),
     short_description |-> extract_short_description(doc),
     description |-> DescriptionLoop(desc_selectors, doc)]

\* elements of a page that match a selector at most
MaxElements == 2

\* elements: without text, with a short text, with a paragraph of 30
\* characters, with 25 characters outside any paragraph
ElementPool ==
    {[text |-> <<>>, p |-> None],
     [text |-> Chars("a", 5), p |-> Some(Chars("a", 5))],
     [text |-> Chars("b", 30), p |-> Some(Chars("b", 30))],
     [text |-> Chars("d", 25), p |-> None]}

\* a compound or attribute selector matches only where the simple ones do
MatchesAgree(found) ==
    /\ ".summary .excerpt" \in found => {".summary", ".excerpt"} \subseteq found
    /\ ".entry-summary .excerpt" \in found => ".excerpt" \in found
    /\ {".short-description", ".product-short-description",
        ".woocommerce-product-details__short-description"} \cap found # {}
          => "[class*=short]" \in found

ElementMaps ==
    UNION {{[s \in Selectors |-> IF s \in found THEN Some(f[s]) ELSE None] :
               f \in [found -> ElementPool]} :
           found \in {T \in SUBSET Selectors :
                        Cardinality(T) <= MaxElements /\ MatchesAgree(T)}}

\* the <title> of a page: "tu - x"
TitlePool == {None, Some(<<"t", "u", " ", "-", " ", "x">>)}

\* the other lines of a page: a price line, then a line of 22 characters
OtherLines ==
    {<<>>,
     <<<<"G", "i", "a'", ":", " ">> \o Chars("9", 20), Chars("e", 22)>>}

DetailPages == [elements : ElementMaps, title : TitlePool, lines : OtherLines]

\* the scalar fields of extract_product_details for a fetched page
ExtractDetails ==
    /\ program = "details"
    /\ pc = "start"
    /\ returned' = ScalarFields(soup)
    /\ pc' = "done"
    /\ UNCHANGED <<program, firecrawl, soup, lastFetch>>
    /\ UNCHANGED <<crawlVars, navVars, menuVars, priceVars>>

InitDetails ==
    /\ program = "details"
    /\ firecrawl = FALSE
    /\ pc = "start"
    /\ lastFetch = NoFetch
    /\ soup \in DetailPages
    /\ returned = <<>>
    /\ CrawlIdle /\ NavIdle /\ MenuIdle /\ PriceIdle

NextDetails == ExtractDetails

SpecDetails == InitDetails /\ [][NextDetails]_vars

----------------------------------------------------------------------------
(* AlaskaScraper.extract_product_details: the whole record *)

\* values of product_data, each with its Python type
StrValue(s) == [type |-> "str", value |-> s]
ListValue(l) == [type |-> "list", value |-> l]
DictValue(d) == [type |-> "dict", value |-> d]

breadcrumb_selectors ==
    <<".breadcrumb", ".breadcrumbs", ".woocommerce-breadcrumb",
      "nav[aria-label=breadcrumb]">>

\* the words of the title that name a category: Tu mat, Tu dong
CoolerWord == <<"T", "u?", " ", "m", "a'", "t">>
FreezerWord == <<"T", "u?", " ", "d-", "o^", "n", "g">>

\* the loop over breadcrumb_selectors: the text of the last link of the first
\* breadcrumb that has more than one link
RECURSIVE BreadcrumbLoop(_, _)
BreadcrumbLoop(selectors, doc) ==
    IF selectors = <<>> THEN <<>>
    ELSE LET breadcrumb == doc.breadcrumbs[Head(selectors)]
         IN  IF breadcrumb # None /\ Len(breadcrumb[1]) > 1
             THEN Strip(breadcrumb[1][Len(breadcrumb[1])])
             ELSE BreadcrumbLoop(Tail(selectors), doc)

\* extract_category(soup)
extract_category(doc) ==
    LET category == BreadcrumbLoop(breadcrumb_selectors, doc)
    IN  IF category = <<>> /\ doc.title # None
        THEN IF Contains(doc.title[1], CoolerWord) THEN CoolerWord
             ELSE IF Contains(doc.title[1], FreezerWord) THEN FreezerWord
             ELSE category
        ELSE category

AsciiLetters ==
    {LowerChars[i] : i \in 1..26} \cup {UpperChars[i] : i \in 1..26}

\* re.search(r'/([a-zA-Z0-9-]+)/$', product_url): the last segment of the path
UrlSlug(product_url) ==
    LET n == Len(product_url)
        starts == {i \in 1..(n - 2) :
                     /\ product_url[i] = "/"
                     /\ \A j \in (i + 1)..(n - 1) :
                           product_url[j] \in AsciiLetters \cup Digits \cup {"-"}}
    IN  IF n >= 3 /\ product_url[n] = "/" /\ starts # {}
        THEN LET i == CHOOSE s \in starts : \A o \in starts : s <= o
             IN  Some(SubSeq(product_url, i + 1, n - 1))
        ELSE None

\* [a-z]{2}-\d+[a-z]? under re.IGNORECASE, the whole of str
IsModelCode(str) ==
    LET n == Len(str)
        last == IF n > 0 /\ str[n] \in AsciiLetters THEN n - 1 ELSE n
    IN  /\ last >= 4
        /\ str[1] \in AsciiLetters /\ str[2] \in AsciiLetters
        /\ str[3] = "-"
        /\ \A j \in 4..last : str[j] \in Digits

\* re.search(r'([a-z]{2}-\d+[a-z]?)$', slug, re.IGNORECASE)
ModelMatch(slug) ==
    LET starts == {i \in DOMAIN slug : IsModelCode(SubSeq(slug, i, Len(slug)))}
    IN  IF starts = {} THEN None
        ELSE Some(SubSeq(slug, CHOOSE s \in starts : \A o \in starts : s <= o,
                         Len(slug)))

\* extract_msp(soup, product_url); msp_match is the code after "MSP" in the
\* page text, if any
extract_msp(doc, product_url) ==
    IF doc.msp_match # None THEN doc.msp_match[1]
    ELSE LET url_match == UrlSlug(product_url)
             model_match == IF url_match = None THEN None
                            ELSE ModelMatch(url_match[1])
         IN  IF model_match # None THEN Upper(model_match[1]) ELSE <<>>

\* time.strftime('%Y-%m-%d %H:%M:%S')
Timestamp == <<"2", "0", "2", "4">>

\* product_data for one order of the features
ProductData(product_url, doc, features) ==
    [url |-> StrValue(product_url),
     name |-> StrValue(ProductName(doc)),
     category |-> StrValue(extract_category(doc)),
     msp |-> StrValue(extract_msp(doc, product_url)),
     short_description |-> StrValue(extract_short_description(doc)),
     description |-> StrValue(DescriptionLoop(desc_selectors, doc)),
     prices |-> DictValue(extract_prices(doc.price_matches)),
     specifications |-> DictValue(extract_specifications(doc.specs)),
     features |-> ListValue(features),
     images |-> ListValue(extract_images(doc.imgs)),
     scraped_at |-> StrValue(Timestamp)]

\* nothing was extracted from the page nor from the URL
NothingFound(product_url, doc) ==
    LET data == ProductData(product_url, doc, FeaturesFound(doc.feats))
    IN  \A key \in DOMAIN data \ {"url", "scraped_at"} : data[key].value = <<>>

ProductDetailsOrNone(product_url, content, doc) ==
    IF NoContent(content) \/ NothingFound(product_url, doc) THEN {None}
    ELSE {Some(ProductData(product_url, doc, features)) :
             features \in extract_features(doc.feats)}

\* extract_product_details(product_url) with its fields: what it can return
\* for a fetch result and the page parsed from the markup
ProductDetails(product_url, content, doc) ==
    IF NoContent(content) THEN {None}
    ELSE {Some(ProductData(product_url, doc, features)) :
             features \in extract_features(doc.feats)}

\* product URLs (the path after the origin): with a model code, without
\* one, without a last segment
ProductPaths ==
    {<<"/", "t", "u", "-", "l", "c", "-", "5", "3", "5", "c", "/">>,
     <<"/", "t", "u", "-", "m", "a", "t", "/">>,
     <<"/", "p", "?", "i", "d", "=", "7">>}

NoElements == [s \in Selectors |-> None]

\* a page with a heading and a content block
SomeElements ==
    [s \in Selectors |->
       IF s = "h1" THEN Some([text |-> Chars("a", 5), p |-> None])
       ELSE IF s = ".entry-content"
       THEN Some([text |-> Chars("b", 30), p |-> Some(Chars("b", 30))])
       ELSE None]

NoBreadcrumbs == [s \in Range(breadcrumb_selectors) |-> None]

\* breadcrumbs: a trail with the home link only, a trail of two links
BreadcrumbPool ==
    {NoBreadcrumbs,
     [NoBreadcrumbs EXCEPT ![".breadcrumb"] = Some(<< <<"H", "o", "m", "e">> >>)],
     [NoBreadcrumbs EXCEPT ![".woocommerce-breadcrumb"] =
         Some(<< <<"H", "o", "m", "e">>, CoolerWord >>)]}

RecordTitles == {None, Some(FreezerWord \o <<" ", "-", " ", "x">>)}

RecordPages ==
    [elements : {NoElements, SomeElements},
     title : RecordTitles,
     lines : OtherLines,
     breadcrumbs : BreadcrumbPool,
     msp_match : {None, Some(<<"L", "C", "-", "7">>)},
     price_matches : {<<>>,
                      <<[region |-> "MIEN BAC", price |-> <<" ">>]>>,
                      <<[region |-> "MIEN BAC", price |-> <<"1", "0", "0", "0">>]>>},
     specs : {[matches |-> <<>>, rows |-> <<>>],
              [matches |-> <<[i |-> 6, value |-> <<"5", " ", "v", "n", "d-">>]>>,
               rows |-> <<>>],
              [matches |-> <<[i |-> 6, value |-> <<"R", "3", "2">>]>>,
               rows |-> <<>>]},
     feats : {[items |-> <<>>, bullets |-> <<>>],
              [items |-> <<Chars("a", 11)>>, bullets |-> <<Chars("b", 199)>>]},
     imgs : {<<>>,
             << <<"/", "L", "O", "G", "O", ".", "p", "n", "g">> >>,
             << <<"/", "a", ".", "j", "p", "g">> >>}]

\* extract_product_details applied to a product URL
ExtractProductDetails ==
    /\ program = "record"
    /\ pc = "start"
    /\ \E direct \in FetchResults :
       \E viaFirecrawl \in IF firecrawl THEN FetchResults ELSE {"unused"} :
         LET fetch == get_page_content(firecrawl, direct, viaFirecrawl)
         IN  /\ lastFetch' = fetch
             /\ returned' \in ProductDetails(soup.url, fetch.content, soup.page)
    /\ pc' = "done"
    /\ UNCHANGED <<program, firecrawl, soup>>
    /\ UNCHANGED <<crawlVars, navVars, menuVars, priceVars>>

InitRecord ==
    /\ program = "record"
    /\ firecrawl \in BOOLEAN
    /\ pc = "start"
    /\ lastFetch = NoFetch
    /\ soup \in [url : ProductPaths, page : RecordPages]
    /\ returned = <<>>
    /\ CrawlIdle /\ NavIdle /\ MenuIdle /\ PriceIdle

NextRecord == ExtractProductDetails

SpecRecord == InitRecord /\ [][NextRecord]_vars

----------------------------------------------------------------------------
(* AlaskaScraper.extract_product_urls_from_listing applied to one page *)

\* <a href> elements of the product items of a listing page at most
MaxHrefs == 3

\* hrefs of a listing page: products, the home page, the listing itself,
\* another host, pagination, category and fragment links; a tab inside an
\* href is kept by the parser and removed by urljoin
ListingHrefPool ==
    {HrefRelative, HrefAbsolute, HrefCategory,
     <<"/">>,
     base_url,
     products_url,
     <<"/", "product", "/">>,
     <<"/", "\t", "page", "/", "2", "/">>,
     <<"/", "tu-mat", "/", "#">>,
     <<"/", "/", "cdn.vn", "/", "tu-mat", "/">>}

\* extract_product_urls_from_listing(page_url): the fetch and the extraction
ExtractListing ==
    /\ program = "listing"
    /\ pc = "start"
    /\ \E direct \in FetchResults :
       \E viaFirecrawl \in IF firecrawl THEN FetchResults ELSE {"unused"} :
         LET fetch == get_page_content(firecrawl, direct, viaFirecrawl)
         IN  /\ lastFetch' = fetch
             /\ returned' = extract_product_urls_from_listing(
                                soup.page_url, fetch.content,
                                IF fetch.content = "html" THEN soup.doc ELSE NoDoc)
    /\ pc' = "done"
    /\ UNCHANGED <<program, firecrawl, soup>>
    /\ UNCHANGED <<crawlVars, navVars, menuVars, priceVars>>

InitListing ==
    /\ program = "listing"
    /\ firecrawl \in BOOLEAN
    /\ pc = "start"
    /\ lastFetch = NoFetch
    /\ soup \in [page_url : {PageUrl(1), PageUrl(2)},
                 doc : [container : BOOLEAN,
                        hrefs : SeqsUpTo(ListingHrefPool, MaxHrefs)]]
    /\ returned = <<>>
    /\ CrawlIdle /\ NavIdle /\ MenuIdle /\ PriceIdle

NextListing == ExtractListing

SpecListing == InitListing /\ [][NextListing]_vars

----------------------------------------------------------------------------
(* AlaskaScraper.scrape_single_product *)

\* test_urls of main()
test_urls == {base_url \o <<"/", "tu-mat-lc-535c", "/">>,
              base_url \o <<"/", "tu-mat-2-canh-lc-800c", "/">>}

\* scrape_single_product(product_url)
ScrapeSingleProduct ==
    /\ program = "single"
    /\ pc = "start"
    /\ \E extracted \in IF firecrawl THEN BOOLEAN ELSE {FALSE} :
       \E r \in FetchResults :
         LET viaFc == extract_product_details_with_firecrawl(soup, extracted)
             useManual == ~firecrawl \/ FirecrawlGaveNothing(viaFc)
             fetch == IF firecrawl THEN get_page_content(TRUE, "unused", r)
                      ELSE get_page_content(FALSE, r, "unused")
             manual == extract_product_details(soup, fetch.content)
         IN  /\ calls' = (IF firecrawl
                          THEN <<[fn |-> "firecrawl", url |-> soup, ok |-> viaFc # None]>>
                          ELSE <<>>)
                         \o (IF useManual
                             THEN <<[fn |-> "manual", url |-> soup, ok |-> manual # None]>>
                             ELSE <<>>)
             /\ lastFetch' = IF useManual THEN fetch ELSE NoFetch
             /\ returned' = IF useManual THEN manual ELSE viaFc
    /\ pc' = "done"
    /\ UNCHANGED <<program, firecrawl, soup, page, all_urls, product_urls, idx,
                   all_products, requested, listing_calls, last_request, last_gap>>
    /\ UNCHANGED <<navVars, menuVars, priceVars>>

InitSingle ==
    /\ program = "single"
    /\ firecrawl \in BOOLEAN
    /\ pc = "start"
    /\ lastFetch = NoFetch
    /\ soup \in test_urls
    /\ returned = <<>>
    /\ CrawlIdle /\ NavIdle /\ MenuIdle /\ PriceIdle

NextSingle == ScrapeSingleProduct

\* the entry points that extract product data: the crawl and the single product
InitExtraction == InitCrawl \/ InitSingle

NextExtraction == NextCrawl \/ NextSingle

SpecExtraction == InitExtraction /\ [][NextExtraction]_vars

----------------------------------------------------------------------------
(* Both scrapers *)

Init == InitCrawl \/ InitNav

Next == NextCrawl \/ NextNav

Spec == Init /\ [][Next]_vars


----------------------------------------------------------------------------
(* Claims *)

NoDuplicates(list) == \A i, j \in DOMAIN list : list[i] = list[j] => i = j

InListingLoop == program = "products" /\ pc = "listing"

\* C1: get_all_product_urls ends within the safety ceiling whatever the
\* listing pages return: the loop is always left, the loop is never entered
\* with a page number above 30, and no listing page above 30 is requested.
C1_TerminatesWithinCeiling ==
    /\ [](\A p \in requested : p <= MaxPage)
    /\ [](InListingLoop => page <= MaxPage)
    /\ <>(~InListingLoop)

\* every one of the 30 pages returned a URL and the loop was left
C1_Witness ==
    /\ pc = "returned"
    /\ page = MaxPage + 1
    /\ requested = 1..MaxPage

\* the first listing page was requested and nothing has been accumulated
FirstPageGaveNothing ==
    /\ program = "products"
    /\ pc \in {"listing", "return_urls"}
    /\ 1 \in requested
    /\ all_urls = EmptyBag

\* C2: when the first listing page yields no URL the loop is left at once,
\* page 2 is never requested and the list returned is empty.
C2_EmptyFirstPage ==
    /\ [](FirstPageGaveNothing => pc = "return_urls" /\ requested = {1})
    /\ [][FirstPageGaveNothing => product_urls' = <<>> /\ requested' = {1}]_vars

C2_Witness ==
    /\ pc = "returned"
    /\ page = 1
    /\ requested = {1}
    /\ product_urls = <<>>

\* C3: the list get_all_product_urls returns holds no URL twice, whatever
\* the pages returned.
C3_ReturnedUrlsDistinct ==
    (program = "products" /\ pc \in {"returned", "products", "done"})
        => NoDuplicates(product_urls)

\* a URL was accumulated from several pages and a second URL as well
C3_Witness ==
    /\ pc = "returned"
    /\ \E u \in BagToSet(all_urls) : CopiesIn(u, all_urls) >= 3
    /\ Len(product_urls) = 2

\* the URLs scrape_all_products has been through
Processed == SubSeq(product_urls, 1, idx - 1)

Succeeded(url) == \E i \in DOMAIN calls : calls[i].url = url /\ calls[i].ok

\* C4: in scrape_all_products a URL whose extraction fails is skipped and
\* not tried again, the crawl goes on through every discovered URL, and the
\* records are exactly those of the URLs that succeeded, in processing order.
C4_FailedUrlSkipped ==
    (program = "products" /\ pc \in {"products", "done"}) =>
        /\ [k \in DOMAIN all_products |-> all_products[k].url]
              = SelectSeq(Processed, Succeeded)
        /\ \A i, j \in DOMAIN calls :
              (calls[i].fn = calls[j].fn /\ calls[i].url = calls[j].url) => i = j
        /\ \A i \in DOMAIN calls : calls[i].url \in Range(Processed)
        /\ \A u \in Range(Processed) : \E i \in DOMAIN calls : calls[i].url = u
        /\ pc = "done" => Processed = product_urls

\* the first URL failed, the second one was still extracted
C4_Witness ==
    /\ pc = "done"
    /\ Len(product_urls) = 2
    /\ ~Succeeded(product_urls[1])
    /\ Len(all_products) = 1
    /\ all_products[1].url = product_urls[2]

Fetched == lastFetch.attempts # <<>>

\* the direct GET first; Firecrawl only after it failed, once, with a key;
\* None only when every available fetcher failed
DirectThenFirecrawl ==
    /\ lastFetch.attempts[1] = "direct"
    /\ \A i \in DOMAIN lastFetch.attempts :
          lastFetch.attempts[i] = "firecrawl" =>
              /\ i = 2
              /\ firecrawl
              /\ lastFetch.direct = "error"
    /\ Len(lastFetch.attempts) <= 2
    /\ lastFetch.content = "None" =>
          /\ lastFetch.direct = "error"
          /\ firecrawl => (Len(lastFetch.attempts) = 2
                           /\ lastFetch.viaFirecrawl = "error")

\* one fetcher only: Firecrawl with a key, the direct GET without
OneFetcher ==
    /\ lastFetch.attempts = IF firecrawl THEN <<"firecrawl">> ELSE <<"direct">>
    /\ lastFetch.content = "None" <=>
          (IF firecrawl THEN lastFetch.viaFirecrawl ELSE lastFetch.direct) = "error"

\* C5 as stated: in both scrapers every fetch tries the direct GET first and
\* Firecrawl only after it failed, at most once and only with an API key, and
\* reports failure only when every available fetcher failed.
C5_DirectFirstInBothScrapers == Fetched => DirectThenFirecrawl

\* C5: AlaskaHeaderScraper.get_page_content tries the direct GET first and
\* Firecrawl only after it failed, at most once and only with an API key, and
\* reports failure only when every available fetcher failed;
\* AlaskaScraper.get_page_content tries one fetcher per fetch, Firecrawl when
\* an API key is configured and the direct GET otherwise, and reports failure
\* when that fetcher failed.
C5_FetchOrder ==
    Fetched => IF lastFetch.scraper = "header" THEN DirectThenFirecrawl
               ELSE OneFetcher

\* the header scraper fell back to Firecrawl and got the page
C5_Witness ==
    /\ lastFetch.scraper = "header"
    /\ lastFetch.attempts = <<"direct", "firecrawl">>
    /\ lastFetch.content = "html"


InNavigation == program = "navigation" /\ pc \in {"main", "sub", "done"}

\* the fetch of main item m (s = 0) or of its sub-item s, as recorded
FetchEvents(m, s) ==
    {i \in DOMAIN events : /\ events[i].op = "fetch"
                           /\ events[i].main = m
                           /\ events[i].sub = s}

AppendEvents(m) ==
    {i \in DOMAIN events : events[i].op = "append" /\ events[i].main = m}

FetchedOk(m, s) == \E i \in FetchEvents(m, s) : events[i].ok

\* successful sub-page fetches of main item m
SubPagesOk(m) ==
    {s \in DOMAIN main_navigation[m].sub_items : FetchedOk(m, s)}

\* the main items whose record has been appended, in order
Appended == SelectSeq([m \in DOMAIN main_navigation |-> m],
                      LAMBDA m : AppendEvents(m) # {})

\* every record of the output, main pages and sub-pages, the ones of the
\* main item in progress included
AllRecords ==
    Range(navigation_pages) \cup Range(sub_pages)
        \cup UNION {Range(navigation_pages[k].sub_pages) : k \in DOMAIN navigation_pages}

\* C6: in scrape_all_navigation_content a sub-page whose fetch fails is left
\* out of its parent's sub_pages, a main page whose fetch fails is left out
\* of navigation_pages, and every record of the output carries the content
\* extracted from its own URL.
C6_FailedPagesOmitted ==
    InNavigation =>
        /\ \A rec \in AllRecords :
              rec.content # None /\ rec.content[1].source = rec.url
        /\ Len(navigation_pages) = Len(Appended)
        /\ \A k \in DOMAIN navigation_pages :
              /\ navigation_pages[k].name = main_navigation[Appended[k]].name
              /\ FetchedOk(Appended[k], 0)
              /\ Len(navigation_pages[k].sub_pages)
                    = Cardinality(SubPagesOk(Appended[k]))
        /\ \A m \in DOMAIN main_navigation :
              (FetchEvents(m, 0) # {} /\ ~FetchedOk(m, 0)) =>
                  /\ AppendEvents(m) = {}
                  /\ \A rec \in Range(navigation_pages) :
                        rec.name # main_navigation[m].name
        /\ pc = "sub" => Len(sub_pages) = Cardinality(SubPagesOk(mi))

\* a main page failed, and a sub-page of an appended main page failed
\* while another of its sub-pages was kept
C6_Witness ==
    /\ program = "navigation"
    /\ pc = "done"
    /\ \E m \in DOMAIN main_navigation :
          FetchEvents(m, 0) # {} /\ ~FetchedOk(m, 0)
    /\ \E k \in DOMAIN navigation_pages :
          /\ navigation_pages[k].sub_pages # <<>>
          /\ \E s \in DOMAIN main_navigation[Appended[k]].sub_items :
                FetchEvents(Appended[k], s) # {} /\ ~FetchedOk(Appended[k], s)

\* C7: navigation crawls are two levels deep: a sub-item has no sub-items,
\* a sub-page record has no sub-pages, and every sub-page of a main item is
\* fetched before the record of that main item is appended and before the
\* next main item is fetched.
C7_DepthTwo ==
    InNavigation =>
        /\ \A m \in DOMAIN main_navigation :
              \A s \in DOMAIN main_navigation[m].sub_items :
                  main_navigation[m].sub_items[s].sub_items = <<>>
        /\ \A rec \in AllRecords :
              \A k \in DOMAIN rec.sub_pages : rec.sub_pages[k].sub_pages = <<>>
        /\ \A m \in DOMAIN main_navigation : \A a \in AppendEvents(m) :
              \A s \in DOMAIN main_navigation[m].sub_items :
                  \E f \in FetchEvents(m, s) : f < a
        /\ \A i, j \in DOMAIN events :
              (/\ events[i].op = "fetch" /\ events[i].sub > 0
               /\ events[j].op = "fetch" /\ events[j].sub = 0
               /\ events[j].main > events[i].main) => i < j
        /\ \A m \in DOMAIN main_navigation :
              (FetchedOk(m, 0) /\ \E j \in DOMAIN events : events[j].main > m) =>
                  AppendEvents(m) # {}

\* two main pages were appended, the first of them with two sub-items
C7_Witness ==
    /\ program = "navigation"
    /\ pc = "done"
    /\ Len(navigation_pages) = 2
    /\ Len(main_navigation[1].sub_items) = 2
    /\ Len(navigation_pages[1].sub_pages) >= 1

FoundNames == {navigation_items[k].name : k \in DOMAIN navigation_items}

\* C8: the list extract_main_menu returns is the canonical label sequence
\* restricted to the labels found, in whatever order the links occur in the
\* document and however each label was found.
C8_CanonicalOrder ==
    (program = "main_menu" /\ pc = "done") =>
        [k \in DOMAIN navigation_items |-> navigation_items[k].name]
            = SelectSeq(TargetNames, LAMBDA name : name \in FoundNames)

\* the links occur in the reverse of the canonical order, and Du an was found
\* by its URL only
C8_Witness ==
    /\ program = "main_menu"
    /\ pc = "done"
    /\ soup_links = <<LinkContact, LinkProjectByUrl, LinkIntro>>
    /\ Len(navigation_items) = 3
    /\ navigation_items[2].name = <<"Du an">>

\* C9: every URL stored in an output record (main navigation item, sub-item,
\* product URL of a listing) is absolute, a relative href being resolved
\* against https://alaska.vn before it is stored.
C9_StoredUrlsAbsolute ==
    /\ \A k \in DOMAIN navigation_items :
          /\ IsAbsolute(navigation_items[k].url)
          /\ \A j \in DOMAIN navigation_items[k].sub_items :
                IsAbsolute(navigation_items[k].sub_items[j].url)
    /\ \A k \in DOMAIN product_urls : IsAbsolute(product_urls[k])

\* the digits of a text, in order
DigitsOf(text) == SelectSeq(text, LAMBDA c : c \in Digits)

\* a digit string without its leading zeros, "0" for zero
RECURSIVE StripZeros(_)
StripZeros(str) ==
    IF Len(str) > 1 /\ str[1] = "0" THEN StripZeros(Tail(str)) ELSE str

\* (,[0-9]{3})*
RECURSIVE CommaGroups(_)
CommaGroups(str) ==
    \/ str = <<>>
    \/ /\ Len(str) >= 4
       /\ str[1] = ","
       /\ \A i \in 2..4 : str[i] \in Digits
       /\ CommaGroups(SubSeq(str, 5, Len(str)))

\* ^[0-9]{1,3}(,[0-9]{3})*\sVND$
WellFormedPrice(value) ==
    /\ Len(value) >= 3
    /\ value[Len(value)] = "VND"
    /\ value[Len(value) - 1] = " "
    /\ LET number == SubSeq(value, 1, Len(value) - 2)
       IN  \E k \in 1..3 :
             /\ k <= Len(number)
             /\ \A i \in 1..k : number[i] \in Digits
             /\ CommaGroups(SubSeq(number, k + 1, Len(number)))

\* the matches of a region that leave digits once the separators are gone
DigitMatches(region) ==
    {i \in DOMAIN price_matches : /\ price_matches[i].region = region
                                  /\ DigitsOf(price_matches[i].price) # <<>>}

\* the match a stored value comes from: the last one written
StoredFrom(region) ==
    price_matches[CHOOSE i \in DigitMatches(region) :
                    \A j \in DigitMatches(region) : j <= i].price

PriceRegions == {price_matches[i].region : i \in DOMAIN price_matches}

\* C10 as stated: a stored price is 1-3 digits, comma-separated groups of 3
\* digits, a space and the currency suffix; its digits are the digits of the
\* matched text; a match without digits stores nothing.
C10_DigitsKeptAsMatched ==
    (program = "prices" /\ pc = "done") =>
        \A region \in PriceRegions :
            IF DigitMatches(region) = {} THEN region \notin DOMAIN prices
            ELSE /\ region \in DOMAIN prices
                 /\ WellFormedPrice(prices[region])
                 /\ DigitsOf(prices[region]) = DigitsOf(StoredFrom(region))

\* C10: a stored price is 1-3 digits, comma-separated groups of 3 digits, a
\* space and the currency suffix; its digits are the digits of the matched
\* text without their leading zeros; a match without digits stores nothing.
C10_PriceFormat ==
    (program = "prices" /\ pc = "done") =>
        /\ DOMAIN prices \subseteq PriceRegions
        /\ \A region \in PriceRegions :
              IF DigitMatches(region) = {} THEN region \notin DOMAIN prices
              ELSE /\ region \in DOMAIN prices
                   /\ WellFormedPrice(prices[region])
                   /\ DigitsOf(prices[region])
                         = StripZeros(DigitsOf(StoredFrom(region)))

\* a price with a leading zero, a price with a group of thousands
C10_Witness ==
    /\ program = "prices"
    /\ pc = "done"
    /\ Len(price_matches) = 2
    /\ price_matches[1] = [region |-> "MIEN NAM", price |-> <<"0", "1", " ">>]
    /\ DOMAIN prices = {"MIEN BAC", "MIEN NAM"}
    /\ prices["MIEN NAM"] = <<"1", " ", "VND">>
    /\ prices["MIEN BAC"] = <<"1", "0", ",", "0", "0", "0", " ", "VND">>

\* C11: every phone value stored in contact_info has at least 10 digits once
\* every non-digit character is removed.
C11_PhoneHasTenDigits ==
    (program = "phone" /\ pc = "done" /\ "phone" \in DOMAIN returned) =>
        Len(DigitsOf(returned["phone"])) >= 10

\* a letter c is the letter u of a word in capitals, in either case
SameLetter(c, u) ==
    \/ c = u
    \/ \E i \in DOMAIN LowerChars : LowerChars[i] = c /\ UpperChars[i] = u

\* a text contains a word in any letter case
HasWord(text, word) ==
    \E i \in 0..(Len(text) - Len(word)) :
        \A j \in 1..Len(word) : SameLetter(text[i + j], word[j])

SpecDone == program = "specifications" /\ pc = "done"

\* C12: no value of the mapping returned by extract_specifications contains
\* the currency word or the region word, in any letter case, whether it came
\* from a pattern or from a table row.
C12_NoPriceWordsInSpecs ==
    SpecDone =>
        \A key \in DOMAIN returned :
            /\ ~HasWord(returned[key], <<"V", "N", "D-">>)
            /\ ~HasWord(returned[key], <<"M", "I", "E^", "N">>)

\* a lower-case currency match and a lower-case region row are left out
\* while another match is stored
C12_Witness ==
    /\ SpecDone
    /\ \E n \in DOMAIN soup.matches :
          soup.matches[n].value = <<"5", " ", "v", "n", "d-">>
    /\ soup.rows = <<[key |-> <<"G", "a", "s">>,
                      value |-> <<"m", "i", "e^", "n">>]>>
    /\ returned # <<>>
    /\ <<"G", "a", "s">> \notin DOMAIN returned

\* the filter a specification value has to pass, as the code states it
SpecValueKept(value) ==
    /\ value # <<>>
    /\ Len(value) < 100
    /\ ~HasWord(value, <<"V", "N", "D-">>)
    /\ ~HasWord(value, <<"M", "I", "E^", "N">>)

\* the writes extract_specifications attempts, in the order of the code:
\* the matches of the patterns, then the table rows
SpecWrites ==
    [n \in DOMAIN soup.matches |->
        LET value == Strip(soup.matches[n].value)
            key == SpecKey(soup.matches[n].i, value)
        IN  [kept |-> SpecValueKept(value) /\ key # None,
             key |-> key, value |-> value]]
    \o
    [n \in DOMAIN soup.rows |->
        [kept |-> /\ SpecValueKept(soup.rows[n].value)
                  /\ soup.rows[n].key # <<>>
                  /\ ~HasWord(soup.rows[n].key, <<"M", "I", "E^", "N">>),
         key |-> Some(soup.rows[n].key), value |-> soup.rows[n].value]]

\* the positions of the kept writes to a key
WritesTo(key) ==
    {n \in DOMAIN SpecWrites : SpecWrites[n].kept /\ SpecWrites[n].key = Some(key)}

SpecKeys == {SpecWrites[n].key[1] : n \in {m \in DOMAIN SpecWrites : SpecWrites[m].kept}}

LastOf(S) == CHOOSE n \in S : \A m \in S : m <= n

\* C18: every pattern and every table row is applied, and a key written more
\* than once holds the value written last: a later match overwrites an earlier
\* one, a table row overwrites a match (extract_specifications), and a later
\* (region, price) match overwrites an earlier one (extract_prices).
C18_LastWriteWins ==
    /\ SpecDone =>
          /\ DOMAIN returned = SpecKeys
          /\ \A key \in SpecKeys :
                returned[key] = SpecWrites[LastOf(WritesTo(key))].value
    /\ (program = "prices" /\ pc = "done") =>
          \A region \in PriceRegions :
              IF DigitMatches(region) = {} THEN region \notin DOMAIN prices
              ELSE /\ region \in DOMAIN prices
                   /\ prices[region]
                        = FormattedPrice(CleanPrice(StoredFrom(region)))

\* a later pattern overwrites an earlier one under Weight, a table row
\* overwrites a match under Gas
C18_Witness ==
    /\ SpecDone
    /\ soup.matches = <<[i |-> 6, value |-> <<"R", "3", "2">>],
                        [i |-> 13, value |-> <<"5", "0", " ", "k", "g">>],
                        [i |-> 16, value |-> <<"5", " ", "k", "g">>]>>
    /\ soup.rows = <<[key |-> <<"G", "a", "s">>,
                      value |-> <<"R", "6", "0", "0">>]>>
    /\ returned[<<"G", "a", "s">>] = <<"R", "6", "0", "0">>
    /\ returned[<<"W", "e", "i", "g", "h", "t">>] = <<"5", " ", "k", "g">>

\* the key a match of spec_patterns[i] stands for: the label of a labelled
\* pattern (0..18), the quantity an unlabelled pattern describes (19..25:
\* dimensions, weight, capacity, refrigerant, temperature, power, voltage)
ImpliedKey(i) ==
    IF i < 19 THEN spec_labels[i + 1]
    ELSE spec_labels[<<13, 14, 15, 19, 16, 17, 18>>[i - 18]]

\* C20: a value matched by a labelled pattern, Vietnamese or English, is
\* stored under the label of the pattern, and a match of an unlabelled
\* pattern under the key its shape implies (Dimensions for NxNxN mm, Weight
\* for N kg).
C20_KeyFromLabelOrShape ==
    SpecDone =>
        \A n \in DOMAIN soup.matches :
            LET value == Strip(soup.matches[n].value)
                key == ImpliedKey(soup.matches[n].i)
            IN  SpecValueKept(value) =>
                  /\ key \in DOMAIN returned
                  /\ \E m \in DOMAIN SpecWrites :
                        /\ SpecWrites[m].value = returned[key]
                        /\ m >= n

\* C13: every entry of the list returned by extract_features, from a list item
\* or from a bullet line, is more than 10 and fewer than 200 characters long,
\* and no entry occurs twice.
C13_FeatureLengthBounds ==
    (program = "features" /\ pc = "done") =>
        /\ \A k \in DOMAIN returned :
              Len(returned[k]) > 10 /\ Len(returned[k]) < 200
        /\ NoDuplicates(returned)

\* the accepted URL of every src that passes the filters, in document order
ImageOccurrences ==
    SelectSeq([k \in DOMAIN soup |-> urljoin(base_url, soup[k])],
              LAMBDA u : \E k \in DOMAIN returned : returned[k] = u)

\* the positions of a list are in the order of first occurrence in another
FirstSeenOrder(list, occurrences) ==
    \A a, b \in DOMAIN list :
        a < b =>
            \E i \in DOMAIN occurrences :
                /\ occurrences[i] = list[a]
                /\ \A j \in 1..i : occurrences[j] # list[b]

\* C14: the list returned by extract_images has no duplicate URL, no URL that
\* contains logo, icon, banner, header or footer, only absolute URLs, and
\* keeps the accepted URLs in the order of their first occurrence.
C14_ImageList ==
    (program = "images" /\ pc = "done") =>
        /\ NoDuplicates(returned)
        /\ \A k \in DOMAIN returned :
              /\ ~\E skip \in image_skips : Contains(returned[k], skip)
              /\ IsAbsolute(returned[k])
        /\ FirstSeenOrder(returned, ImageOccurrences)

\* C15: for a document whose only hyperlink is <a href="/ve-chung-toi/"> with
\* the Vietnamese text of the first label, extract_main_menu returns exactly
\* one record, named with that Vietnamese label, whose url is
\* https://alaska.vn/ve-chung-toi/.
C15_IntroScenario ==
    (program = "main_menu" /\ pc = "done" /\ soup_links = <<LinkIntroVietnamese>>) =>
        /\ Len(navigation_items) = 1
        /\ navigation_items[1].name = <<"Gio+'i thie^.u">>
        /\ navigation_items[1].url = base_url \o <<"/", "ve-chung-toi", "/">>

\* an iteration of the listing loop is about to run
AtListing == program = "products" /\ pc = "listing"

C17_PausesBetweenFetches ==
    program = "products" =>
        /\ (last_gap.from = "listing" /\ last_gap.to = "listing") =>
              last_gap.pause = 1
        /\ (last_gap.from = "product" /\ last_gap.to = "product") =>
              last_gap.pause = 2

\* two listing pages, then two products, were fetched
C17_Witness ==
    /\ program = "products"
    /\ {1, 2} \subseteq requested
    /\ last_gap = [from |-> "product", to |-> "product", pause |-> 2]
    /\ last_request.kind = "product"
    /\ idx = 3

\* the text of the element a selector finds, empty if it finds none
TextAt(selector) ==
    IF soup.elements[selector] = None THEN <<>>
    ELSE Strip(soup.elements[selector][1].text)

\* the text of the first paragraph of the element a selector finds
ParagraphAt(selector) ==
    IF soup.elements[selector] = None \/ soup.elements[selector][1].p = None
    THEN <<>>
    ELSE Strip(soup.elements[selector][1].p[1])

\* the first value of a list of strategies that is kept, empty if none is
FirstKept(values, kept) ==
    IF FirstTrue(kept) = 0 THEN <<>> ELSE values[FirstTrue(kept)]

\* the values of the strategies of each scalar field, in priority order
NameValues ==
    [k \in 1..3 |-> TextAt(title_selectors[k])]
      \o <<IF soup.title = None THEN <<>>
           ELSE Strip(BeforeFirst(BeforeFirst(Strip(soup.title[1]), "|"), "-"))>>
DescriptionValues == [k \in 1..4 |-> Truncate(TextAt(desc_selectors[k]), 1000)]
ShortValues ==
    [k \in 1..7 |-> TextAt(short_desc_selectors[k])]
      \o [k \in 1..3 |-> ParagraphAt(content_selectors[k])]
      \o [k \in DOMAIN PageLines(soup) |-> Strip(PageLines(soup)[k])]

\* the filter of each strategy of the short description
ShortKept ==
    [k \in DOMAIN ShortValues |->
        LET value == ShortValues[k]
        IN  /\ Len(value) > 20
            /\ k \in 8..10 => Len(value) < 500
            /\ k > 10 => /\ Len(value) < 300
                         /\ ~\E skip \in line_skips : HasWord(value, skip)]

\* C19: each scalar field of a product record (name, short_description,
\* description) holds the value of the first strategy, in priority order,
\* that yields a non-empty value its filter accepts; a strategy that finds an
\* element with an empty or rejected value does not stop the later ones.
C19_FirstAcceptedStrategyWins ==
    (program = "details" /\ pc = "done") =>
        /\ returned.name
             = FirstKept(NameValues, [k \in 1..4 |-> NameValues[k] # <<>>])
        /\ returned.description
             = FirstKept(DescriptionValues,
                         [k \in 1..4 |-> DescriptionValues[k] # <<>>])
        /\ returned.short_description
             = Truncate(FirstKept(ShortValues, ShortKept), 500)

\* the links extract_main_menu scans
ScannedLinks == AllLinks(soup_links)

\* the scanned links whose text equals or contains the label at position t
TextMatches(t) ==
    {i \in DOMAIN ScannedLinks : Contains(ScannedLinks[i].text, TargetNames[t])}

\* position of a label in the target list
LabelIndex(name) == CHOOSE t \in 1..5 : TargetNames[t] = name

\* C21: the URL fallback serves a label only when no scanned link's text
\* equals or contains it: the record of a label that some link's text matches
\* carries the URL of a link whose text matches that label.
C21_FallbackOnlyWithoutTextMatch ==
    (program = "main_menu" /\ pc = "done") =>
        \A k \in DOMAIN navigation_items :
            LET t == LabelIndex(navigation_items[k].name)
            IN  TextMatches(t) # {} =>
                  \E i \in TextMatches(t) :
                     navigation_items[k].url = MainUrl(HrefOf(ScannedLinks[i]))

\* a container is selected by a selector of submenu_selectors as CSS reads it:
\* ".name" selects by class, a bare name by tag
Selects(selector, container) ==
    CASE selector = ".sub-menu" -> container.class = "sub-menu"
      [] selector = ".dropdown-menu" -> container.class = "dropdown-menu"
      [] selector = ".submenu" -> container.class = "submenu"
      [] OTHER -> container.tag = selector

\* the accepted sub-items of the first container a selector selects
AcceptedUnder(parent, selector, expected) ==
    LET k == FirstTrue([i \in DOMAIN parent.containers |->
                          Selects(selector, parent.containers[i])])
    IN  IF k = 0 THEN <<>>
        ELSE SubLinksLoop(parent.containers[k].links, expected, <<>>)

\* the sub-items of the first selector, in priority order, that yields any
FirstYield(parent, expected) ==
    LET k == FirstTrue([s \in DOMAIN submenu_selectors |->
                          AcceptedUnder(parent, submenu_selectors[s], expected) # <<>>])
    IN  IF k = 0 THEN <<>>
        ELSE AcceptedUnder(parent, submenu_selectors[k], expected)

\* C22: extract_sub_menus returns nothing for the three main items without an
\* expected-label list; for the other two every sub-item is named with a label
\* of the parent's list, and the sub-items are those of the first container,
\* in the order .sub-menu, .dropdown-menu, ul, .submenu, that yields any.
C22_SubMenuContainers ==
    (program = "main_menu" /\ pc = "done") =>
        /\ \A k \in DOMAIN navigation_items :
              LET t == LabelIndex(navigation_items[k].name)
                  subs == navigation_items[k].sub_items
              IN  IF t \in DOMAIN expected_sub_items
                  THEN \A j \in DOMAIN subs :
                          subs[j].name \in Range(expected_sub_items[t])
                  ELSE subs = <<>>
        /\ \A i \in DOMAIN ScannedLinks : \A t \in DOMAIN expected_sub_items :
              extract_sub_menus(ScannedLinks[i].parent, t)
                 = FirstYield(ScannedLinks[i].parent, expected_sub_items[t])

\* a is b with some elements left out, the others in the order of b
RECURSIVE IsSubsequence(_, _)
IsSubsequence(a, b) ==
    IF a = <<>> THEN TRUE
    ELSE IF b = <<>> THEN FALSE
    ELSE IF Head(a) = Head(b) THEN IsSubsequence(Tail(a), Tail(b))
    ELSE IsSubsequence(a, Tail(b))

\* the elements of seq at the positions of idxs, in the order of seq
PickAt(seq, idxs) ==
    LET kept == SelectSeq([i \in DOMAIN seq |-> i], LAMBDA i : i \in idxs)
    IN  [k \in DOMAIN kept |-> seq[kept[k]]]

\* name and url of every record of a list
Briefs(records) ==
    [k \in DOMAIN records |-> [name |-> records[k].name, url |-> records[k].url]]

\* the sub-items of a record follow the links of one container below a link
\* of the home page
InContainerOrder(item) ==
    item.sub_items # <<>> =>
        \E i \in DOMAIN home : \E c \in DOMAIN home[i].parent.containers :
            LET sub_links == home[i].parent.containers[c].links
            IN  IsSubsequence([j \in DOMAIN item.sub_items |-> item.sub_items[j].url],
                              [j \in DOMAIN sub_links |-> SubUrl(sub_links[j].href)])

\* the main items whose fetch succeeded
MainPagesOk == {m \in DOMAIN main_navigation : FetchedOk(m, 0)}

\* C23: children keep the order of the document: the sub_items of a
\* navigation item follow the links of the sub-menu container, sub_pages is
\* sub_items without the failed pages and navigation_pages is main_navigation
\* without the failed pages, the others in their order.
C23_EncounterOrder ==
    InNavigation =>
        /\ \A m \in DOMAIN main_navigation : InContainerOrder(main_navigation[m])
        /\ IsSubsequence(Briefs(navigation_pages), Briefs(main_navigation))
        /\ \A k \in DOMAIN navigation_pages :
              IsSubsequence(Briefs(navigation_pages[k].sub_pages),
                            Briefs(main_navigation[Appended[k]].sub_items))
        /\ pc = "sub" => IsSubsequence(Briefs(sub_pages),
                                       Briefs(main_navigation[mi].sub_items))
        /\ pc = "done" =>
              /\ Briefs(navigation_pages) = PickAt(Briefs(main_navigation), MainPagesOk)
              /\ \A k \in DOMAIN navigation_pages :
                    Briefs(navigation_pages[k].sub_pages)
                       = PickAt(Briefs(main_navigation[Appended[k]].sub_items),
                                SubPagesOk(Appended[k]))

\* two main pages were kept, and one of them kept two sub-pages whose links
\* have a rejected link between them in the document
C23_Witness ==
    /\ program = "navigation"
    /\ pc = "done"
    /\ Len(navigation_pages) = 2
    /\ \E k \in DOMAIN navigation_pages : Len(navigation_pages[k].sub_pages) = 2

\* extract_product_details has run and its fetch gave markup
RecordFetched ==
    program = "record" /\ pc = "done" /\ ~NoContent(lastFetch.content)

\* the keys of product_data and the empty value of each extracted field
RecordKeys ==
    {"url", "name", "category", "msp", "short_description", "description",
     "prices", "specifications", "features", "images", "scraped_at"}

EmptyDefault(key) ==
    IF key \in {"prices", "specifications"} THEN DictValue(<<>>)
    ELSE IF key \in {"features", "images"} THEN ListValue(<<>>)
    ELSE StrValue(<<>>)

\* a line the last resort of the short description accepts
QualifyingLine(line) ==
    /\ Len(Strip(line)) > 20 /\ Len(Strip(line)) < 300
    /\ ~\E skip \in line_skips : HasWord(Strip(line), skip)

\* the page holds nothing that qualifies for a field
NoQualifyingMatch(key) ==
    LET doc == soup.page
        NoneOf(selectors) == \A s \in Range(selectors) : doc.elements[s] = None
    IN  CASE key = "name" -> NoneOf(title_selectors) /\ doc.title = None
          [] key = "category" ->
                /\ \A s \in Range(breadcrumb_selectors) :
                      doc.breadcrumbs[s] = None \/ Len(doc.breadcrumbs[s][1]) <= 1
                /\ \/ doc.title = None
                   \/ /\ ~Contains(doc.title[1], CoolerWord)
                      /\ ~Contains(doc.title[1], FreezerWord)
          [] key = "msp" ->
                /\ doc.msp_match = None
                /\ \/ UrlSlug(soup.url) = None
                   \/ ModelMatch(UrlSlug(soup.url)[1]) = None
          [] key = "short_description" ->
                /\ NoneOf(short_desc_selectors)
                /\ NoneOf(content_selectors)
                /\ \A n \in DOMAIN PageLines(doc) : ~QualifyingLine(PageLines(doc)[n])
          [] key = "description" -> NoneOf(desc_selectors)
          [] key = "prices" ->
                \A n \in DOMAIN doc.price_matches :
                    DigitsOf(doc.price_matches[n].price) = <<>>
          [] key = "specifications" ->
                /\ doc.specs.rows = <<>>
                /\ \A n \in DOMAIN doc.specs.matches :
                      ~SpecValueKept(Strip(doc.specs.matches[n].value))
          [] key = "features" -> doc.feats.items = <<>> /\ doc.feats.bullets = <<>>
          [] key = "images" ->
                \A n \in DOMAIN doc.imgs :
                    \/ ~\E ext \in image_extensions : Contains(Lower(doc.imgs[n]), ext)
                    \/ \E skip \in image_skips : Contains(Lower(doc.imgs[n]), skip)
          [] OTHER -> FALSE

FirstTextMatch(t) ==
    ScannedLinks[CHOOSE i \in TextMatches(t) : \A j \in TextMatches(t) : i <= j]

\* C25: extract_main_menu returns at most one record per label and at most
\* five records, and the record of a label that link texts match is built
\* from the first such link of the document, never from a later one.
C25_FirstMatchKept ==
    (program = "main_menu" /\ pc = "done") =>
        /\ Len(navigation_items) <= 5
        /\ \A k, l \in DOMAIN navigation_items :
              navigation_items[k].name = navigation_items[l].name => k = l
        /\ \A k \in DOMAIN navigation_items :
              LET t == LabelIndex(navigation_items[k].name)
              IN  TextMatches(t) # {} =>
                     navigation_items[k] = NavItem(t, FirstTextMatch(t))

\* the fetch of the listing iteration that ends with this step gave no content
ListingFetchFails ==
    /\ program = "products"
    /\ pc = "listing"
    /\ lastFetch' # NoFetch
    /\ NoContent(lastFetch'.content)

\* the same for an iteration that has ended
ListingFetchFailed ==
    /\ program = "products"
    /\ pc \in {"return_urls", "returned"}
    /\ lastFetch # NoFetch
    /\ NoContent(lastFetch.content)

\* C26: a listing page whose fetch fails ends get_all_product_urls as an empty
\* page does: the loop is left with nothing added to all_urls, no listing page
\* after it is requested, and the list returned holds, once each, the URLs
\* collected from the pages before it.
C26_FailedListingPageEndsCrawl ==
    /\ [][ListingFetchFails =>
            /\ pc' = "return_urls"
            /\ all_urls' = all_urls
            /\ page' = page
            /\ requested' = 1..page]_vars
    /\ [][(program = "products" /\ pc # "listing") => requested' = requested]_vars
    /\ [](ListingFetchFailed => requested = 1..page)
    /\ []((ListingFetchFailed /\ pc = "returned") =>
            /\ Range(product_urls) = BagToSet(all_urls)
            /\ \A k, l \in DOMAIN product_urls :
                  product_urls[k] = product_urls[l] => k = l)

\* the fetch of listing page 3 failed after two pages that gave the same URL,
\* and the list was returned
C26_Witness ==
    /\ ListingFetchFailed
    /\ pc = "returned"
    /\ page = 3
    /\ product_urls # <<>>
    /\ \E u \in BagToSet(all_urls) : all_urls[u] >= 2

\* the main items whose fetch failed
MainPagesFailed ==
    {m \in DOMAIN main_navigation : FetchEvents(m, 0) # {} /\ ~FetchedOk(m, 0)}

\* the sub-page records of the output, the ones in progress included
SubRecords ==
    Range(sub_pages)
        \cup UNION {Range(navigation_pages[k].sub_pages) : k \in DOMAIN navigation_pages}

\* C27: after the fetch of a main navigation page has failed none of its
\* sub-items is fetched and neither the page nor a sub-item of it is in
\* the output, and the main items after it are fetched all the same.
C27_FailedMainSkipsSubPages ==
    InNavigation =>
        /\ \A m \in MainPagesFailed :
              /\ \A s \in DOMAIN main_navigation[m].sub_items :
                    /\ FetchEvents(m, s) = {}
                    /\ \A rec \in SubRecords :
                          rec.url # main_navigation[m].sub_items[s].url
              /\ AppendEvents(m) = {}
              /\ \A rec \in Range(navigation_pages) :
                    rec.name # main_navigation[m].name
              /\ pc = "sub" => mi # m
        /\ \A m \in DOMAIN main_navigation :
              (m < mi \/ pc = "done") => FetchEvents(m, 0) # {}
        /\ pc = "done" => mi = Len(main_navigation) + 1

\* the first main page, which has sub-items, failed and the second one was
\* fetched and kept with a sub-page
C27_Witness ==
    /\ program = "navigation"
    /\ pc = "done"
    /\ 1 \in MainPagesFailed
    /\ main_navigation[1].sub_items # <<>>
    /\ Len(main_navigation) = 2
    /\ Len(navigation_pages) = 1
    /\ navigation_pages[1].sub_pages # <<>>

\* the number of sub-page records of the first n main page records
RECURSIVE SubPageCount(_)
SubPageCount(n) ==
    IF n = 0 THEN 0
    ELSE SubPageCount(n - 1) + Len(navigation_pages[n].sub_pages)

\* C28: total_pages_scraped is the number of main page records of
\* navigation_pages plus the number of their sub_pages records, whichever
\* fetches succeeded and failed; while a main item is in progress the count
\* also covers the sub-page records made for it so far.
C28_TotalPagesScraped ==
    InNavigation =>
        total_pages = Len(navigation_pages) + SubPageCount(Len(navigation_pages))
                        + (IF pc = "sub" THEN Len(sub_pages) ELSE 0)

\* the scrape has ended with a failed main page, a failed sub-page and a
\* main page kept with one of its two sub-pages
C28_Witness ==
    /\ program = "navigation"
    /\ pc = "done"
    /\ MainPagesFailed # {}
    /\ total_pages = 2
    /\ \E k \in DOMAIN navigation_pages :
          /\ Len(navigation_pages[k].sub_pages) = 1
          /\ Len(main_navigation[Appended[k]].sub_items) = 2

\* the URL an href of the listing page stands for
HrefTarget(href) ==
    IF StartsWith(href, <<"/">>) THEN urljoin(base_url, href) ELSE href

\* the targets of the hrefs of the page that are not skipped as written, in
\* document order
ListingOccurrences ==
    LET kept == SelectSeq(soup.doc.hrefs,
                          LAMBDA href : ~\E skip \in SkipHref : Contains(href, skip))
    IN  [k \in DOMAIN kept |-> HrefTarget(kept[k])]

\* C29: every URL extract_product_urls_from_listing returns starts with
\* https://alaska.vn, is neither the home URL nor the URL of the listing page
\* itself, contains none of /page/, /category/, /tag/ and #, and is in the list
\* once, the URLs being in the order of their first occurrence in the page.
C29_ListingUrls ==
    (program = "listing" /\ pc = "done") =>
        /\ \A k \in DOMAIN returned :
              /\ StartsWith(returned[k], base_url)
              /\ returned[k] # home_url
              /\ returned[k] # soup.page_url
              /\ ~\E skip \in {<<"/", "page", "/">>, <<"/", "category", "/">>,
                               <<"/", "tag", "/">>, <<"#">>} :
                    Contains(returned[k], skip)
              /\ \E i \in DOMAIN ListingOccurrences :
                    ListingOccurrences[i] = returned[k]
        /\ NoDuplicates(returned)
        /\ FirstSeenOrder(returned, ListingOccurrences)

\* two products were returned from a page that names the first of them
\* again after the second
C29_Witness ==
    /\ program = "listing"
    /\ pc = "done"
    /\ soup.doc.hrefs = <<HrefAbsolute, HrefRelative, HrefAbsolute>>
    /\ returned = <<HrefAbsolute, base_url \o HrefRelative>>

\* the extraction calls made for one page, in order: with Firecrawl configured
\* the Firecrawl extraction, then the manual one exactly when the first
\* returned nothing; without it the manual extraction alone
MethodsInOrder(page_calls) ==
    IF firecrawl
    THEN /\ Len(page_calls) \in {1, 2}
         /\ page_calls[1].fn = "firecrawl"
         /\ Len(page_calls) = 2 <=> ~page_calls[1].ok
         /\ Len(page_calls) = 2 => page_calls[2].fn = "manual"
    ELSE Len(page_calls) = 1 /\ page_calls[1].fn = "manual"

\* the calls made for a product URL
CallsFor(url) == SelectSeq(calls, LAMBDA c : c.url = url)

\* the product URLs an entry point has been through
Attempted ==
    IF program = "single" THEN (IF pc = "done" THEN {soup} ELSE {})
    ELSE IF pc \in {"products", "done"} THEN Range(Processed) ELSE {}

\* the product URLs reported as failed: no record was kept or returned
ReportedFailed ==
    IF program = "single" THEN {u \in Attempted : returned = None}
    ELSE {u \in Attempted : \A k \in DOMAIN all_products : all_products[k].url # u}

\* C30: with Firecrawl configured the listing iteration and the product
\* extraction call the Firecrawl extraction first and the manual extraction
\* of the same page exactly when the first returned nothing, without Firecrawl
\* they call the manual extraction alone, and a product is reported as failed
\* only when every method called for it returned nothing.
C30_FirecrawlFirstThenManual ==
    program \in {"products", "single"} =>
        /\ listing_calls # <<>> =>
              /\ MethodsInOrder(listing_calls)
              /\ \A i \in DOMAIN listing_calls :
                    listing_calls[i].page = listing_calls[1].page
        /\ \A u \in Attempted : MethodsInOrder(CallsFor(u))
        /\ \A i \in DOMAIN calls : calls[i].url \in Attempted
        /\ \A u \in ReportedFailed : \A i \in DOMAIN CallsFor(u) : ~CallsFor(u)[i].ok

\* a crawl with Firecrawl has ended: the last listing iteration called both
\* methods, one product was extracted by the manual method after Firecrawl
\* returned nothing, and another failed with both
C30_Witness ==
    /\ program = "products"
    /\ pc = "done"
    /\ firecrawl
    /\ Len(listing_calls) = 2
    /\ \E u \in Attempted \ ReportedFailed :
          Len(CallsFor(u)) = 2 /\ CallsFor(u)[2].ok
    /\ \E u \in ReportedFailed : Len(CallsFor(u)) = 2


====
